---- MODULE Spec2Model ----
(***************************************************************************)
(* Model of the StateChannel contract (ERC-7824 payment channels) of the   *)
(* Bastion protocol: src/unnamed/part_007, lines 84-418.                   *)
(*                                                                         *)
(* Amounts are in units of 10^14 wei (0.0001 ether), so that the initial   *)
(* fees 0.001 ether and 0.0001 ether are 10 and 1.  Time is in seconds.    *)
(* One value of `now` is one block: block.timestamp and block.number       *)
(* change together, so a channel id is the triple (p1, p2, now).           *)
(* A call that reverts leaves no trace: it is a step that changes nothing. *)
(* Its revert reason is the value of the operation's ...Err operator in    *)
(* the state of the call.  `last` records the last call that succeeded.    *)
(***************************************************************************)
EXTENDS Integers, Sequences, FiniteSets, TLC

\* ---------------------------------------------------------------- bounds
MaxTotal == 2       \* the largest amount1 + amount2 a channel is opened with
MaxNonce == 2       \* nonces of submitted updates range over 0..MaxNonce
MaxOpens == 2       \* number of successful openChannel calls in a run

\* ------------------------------------------------------ program constants
DISPUTE_TIMEOUT == 86400
MIN_TIMEOUT == 3600
MAX_TIMEOUT == 2592000
InitChannelFee == 10
InitRelayerFee == 1

\* block timestamps of the model: the first block, the block a dispute window
\* later (the deadline of a dispute raised in the first block) and the next second
Times == {0, DISPUTE_TIMEOUT, DISPUTE_TIMEOUT + 1}

\* the blocks in which the model's callers open channels
OpenTimes == {0}

\* -------------------------------------------------------------- addresses
Zero == "0x0"
Alice == "alice"
Bob == "bob"
Owner == "owner"
Relayer == "relayer"
Garbage == "0xgarbage"   \* what ecrecover yields for a signature over another digest
YellowOracle == "yellowOracle"   \* the address the contract is deployed with

Callers == {Alice, Bob, Owner, Relayer}
OracleArgs == {YellowOracle, Alice}
Party1Args == {Zero, Alice}        \* participant1 arguments of openChannel
Party2Args == {Zero, Alice, Bob}   \* participant2 arguments of openChannel
RelayerArgs == {Relayer}           \* relayer arguments
FeeArgs == {<<InitChannelFee, InitRelayerFee>>, <<0, 2>>}   \* arguments of updateFees
\* (balance1, balance2) pairs of submitted updates
AmountArgs == {a \in (0..MaxTotal) \X (0..MaxTotal) : a[1] + a[2] <= MaxTotal}
\* (amount1, amount2) arguments of openChannel: an odd total and the largest total
OpenAmountArgs == {<<1, 0>>, <<1, MaxTotal - 1>>}
TimeoutArgs == {MIN_TIMEOUT - 1, MIN_TIMEOUT, MAX_TIMEOUT + 1}

\* -------------------------------------------------------------- data model
ZeroHash == <<Zero, Zero, 0>>

\* the value a Solidity mapping returns for a key never written
ZeroChannel ==
    [participant1 |-> Zero, participant2 |-> Zero, balance1 |-> 0,
     balance2 |-> 0, nonce |-> 0, timeout |-> 0, isActive |-> FALSE]

EmptySig == [signer |-> Zero, digest |-> <<>>]     \* "0x": no signature bytes

NoUpdate ==
    [channelId |-> ZeroHash, nonce |-> 0, balance1 |-> 0, balance2 |-> 0,
     signature1 |-> EmptySig, signature2 |-> EmptySig]

\* the signed content of an update
Content(u) ==
    [channelId |-> u.channelId, nonce |-> u.nonce, balance1 |-> u.balance1,
     balance2 |-> u.balance2]

\* no accepted update is on record
Unseen == Content(NoUpdate)

VARIABLES
    channels,            \* channel id -> ChannelData, for the ids written so far
    disputeTimeouts,     \* channel id -> deadline, for the non-zero entries
    inDispute,           \* the set of channel ids whose flag is true
    authorizedRelayers,  \* the set of addresses whose flag is true
    channelFee,
    relayerFee,
    balance,             \* address(this).balance
    now,                 \* block.timestamp of the current block
    opens,               \* number of successful openChannel calls
    opened,              \* channel id -> amount1 + amount2 of its latest open
    last,                \* the last successful call: operation, arguments, transfers
    locked,              \* ReentrancyGuard: a nonReentrant function is executing
    frame,               \* the call that is executing, when calls run transfer by transfer
    yellowNetworkOracle, \* the oracle address
    seenUpdate,          \* the content of one update that a call has accepted
    settled,             \* channel id -> amount paid to its participants since its
                         \* latest open, and the last call counted in it
    circles,             \* LendingCircle: circle id -> Circle, ids 1..nextCircleId-1
    circleMembers,       \* LendingCircle: circle id -> member -> status, for the
                         \* members whose memberAddress is not zero
    memberStateChannels  \* LendingCircle: circle id -> member -> channel id

vars == <<channels, disputeTimeouts, inDispute, authorizedRelayers, channelFee,
          relayerFee, balance, now, opens, opened, last, locked, frame,
          yellowNetworkOracle, seenUpdate, settled, circles, circleMembers,
          memberStateChannels>>

\* what a call that runs from entry to exit in one step leaves alone
callState == <<locked, frame>>

\* what no channel or fund operation writes
circleState == <<circles, circleMembers, memberStateChannels>>

unwritten == <<yellowNetworkOracle, seenUpdate, settled, circleState>>

contractState == <<channels, disputeTimeouts, inDispute, authorizedRelayers,
                   channelFee, relayerFee, balance>>

Chan(id) == IF id \in DOMAIN channels THEN channels[id] ELSE ZeroChannel

Deadline(id) == IF id \in DOMAIN disputeTimeouts THEN disputeTimeouts[id] ELSE 0

\* function f with key k set to v (k may be new)
Put(f, k, v) == [x \in (DOMAIN f) \cup {k} |-> IF x = k THEN v ELSE f[x]]

\* function f without key k
Del(f, k) == [x \in (DOMAIN f) \ {k} |-> f[x]]

\* ------------------------------------------------------ signature verifier
\* keccak256(abi.encodePacked(channelId, nonce, balance1, balance2))
StateUpdateHash(u) == <<u.channelId, u.nonce, u.balance1, u.balance2>>

\* keccak256(abi.encodePacked(update.channelId, update.nonce, relayer))
RelayHash(u, relayer) == <<u.channelId, u.nonce, relayer>>

toEthSignedMessageHash(h) == <<"\\x19Ethereum Signed Message:\\n32", h>>

\* signer.signMessage(hash): a signature over the prefixed digest
Sign(signer, h) == [signer |-> signer, digest |-> toEthSignedMessageHash(h)]

\* ECDSA.recover: the signer when the signature was made over this digest,
\* an unrelated address otherwise
recover(digest, sig) == IF sig.digest = digest THEN sig.signer ELSE Garbage

\* ECDSA.recover reverts on a signature that is not 65 bytes long
Malformed(sig) == sig = EmptySig

isValidSignature(h, sig, signer) == recover(toEthSignedMessageHash(h), sig) = signer

\* -------------------------------------------------------------- outcomes
OK == "ok"

Done(op, sender, id, u, paid) ==
    [op |-> op, id |-> id, update |-> Content(u), paid |-> paid]

\* a call that moves no funds and touches no channel
NoCall == Done("none", Zero, ZeroHash, NoUpdate, <<>>)

\* revert: every effect of the call is undone
Revert == UNCHANGED vars

\* x.transfer(a1) then y.transfer(a2): each needs the balance to cover it
CanPay(bal, a1, a2) == bal >= a1 /\ bal - a1 >= a2

\* a participant modifier that lets every caller through
onlyParticipant_AnyCaller(sender, channelId) == TRUE

onlyParticipant(sender, channelId) ==
    sender = Chan(channelId).participant1 \/ sender = Chan(channelId).participant2

\* an owner modifier that lets every caller through
onlyOwner_AnyCaller(sender) == TRUE

onlyOwner(sender) == sender = Owner

\* no call is executing
NoFrame ==
    [stage |-> "idle", op |-> "none", id |-> ZeroHash, update |-> Content(NoUpdate),
     before |-> <<>>, pending |-> <<>>, paid |-> <<>>, entered |-> {}]

\* ---------------------------------------------------------------- Init
Init ==
    /\ channels = <<>>
    /\ disputeTimeouts = <<>>
    /\ inDispute = {}
    /\ authorizedRelayers = {}
    /\ channelFee = InitChannelFee
    /\ relayerFee = InitRelayerFee
    /\ balance = 0
    /\ now = 0
    /\ opens = 0
    /\ opened = <<>>
    /\ last = NoCall
    /\ locked = FALSE
    /\ frame = NoFrame
    /\ yellowNetworkOracle = YellowOracle
    /\ seenUpdate = Unseen
    /\ settled = [of |-> NoCall, paid |-> <<>>]
    /\ circles = <<>>
    /\ circleMembers = <<>>
    /\ memberStateChannels = <<>>

\* ---------------------------------------------------------- openChannel
\* openChannel without the timeout require
openChannelErr_NoTimeoutCheck(p1, p2, amount1, amount2, timeout, value) ==
    IF p1 = p2 THEN "Participants must be different"
    ELSE IF p1 = Zero \/ p2 = Zero THEN "Invalid participants"
    ELSE IF ~(value >= amount1 + amount2 + channelFee) THEN "Insufficient funds"
    ELSE OK

openChannelErr(p1, p2, amount1, amount2, timeout, value) ==
    IF p1 = p2 THEN "Participants must be different"
    ELSE IF p1 = Zero \/ p2 = Zero THEN "Invalid participants"
    ELSE IF ~(timeout >= MIN_TIMEOUT /\ timeout <= MAX_TIMEOUT) THEN "Invalid timeout"
    ELSE IF ~(value >= amount1 + amount2 + channelFee) THEN "Insufficient funds"
    ELSE OK

\* keccak256(abi.encodePacked(participant1, participant2, block.timestamp, block.number))
ChannelIdOf(p1, p2) == <<p1, p2, now>>

openChannel(sender, p1, p2, amount1, amount2, timeout, value) ==
    LET err == openChannelErr(p1, p2, amount1, amount2, timeout, value)
        channelId == ChannelIdOf(p1, p2)
    IN  IF err # OK THEN Revert
        ELSE /\ channels' = Put(channels, channelId,
                    [participant1 |-> p1, participant2 |-> p2, balance1 |-> amount1,
                     balance2 |-> amount2, nonce |-> 0, timeout |-> timeout,
                     isActive |-> TRUE])
             /\ balance' = balance + value
             /\ opens' = opens + 1
             /\ opened' = Put(opened, channelId, amount1 + amount2)
             /\ last' = Done("openChannel", sender, channelId, NoUpdate, <<>>)
             /\ UNCHANGED <<disputeTimeouts, inDispute, authorizedRelayers,
                            channelFee, relayerFee, now>>

\* ---------------------------------------------------------- updateChannel
\* updateChannel without the balance-sum require
updateChannelErr_NoSumCheck(u) ==
    LET channel == Chan(u.channelId)
        messageHash == StateUpdateHash(u)
    IN  IF ~channel.isActive THEN "Channel not active"
        ELSE IF u.channelId \in inDispute THEN "Channel in dispute"
        ELSE IF ~(u.nonce > channel.nonce) THEN "Invalid nonce"
        ELSE IF Malformed(u.signature1) THEN "ECDSA: invalid signature length"
        ELSE IF ~isValidSignature(messageHash, u.signature1, channel.participant1)
             THEN "Invalid signature from participant1"
        ELSE IF Malformed(u.signature2) THEN "ECDSA: invalid signature length"
        ELSE IF ~isValidSignature(messageHash, u.signature2, channel.participant2)
             THEN "Invalid signature from participant2"
        ELSE OK

\* updateChannel with require(update.nonce >= channel.nonce)
updateChannelErr_NonceGeq(u) ==
    LET channel == Chan(u.channelId)
        messageHash == StateUpdateHash(u)
    IN  IF ~channel.isActive THEN "Channel not active"
        ELSE IF u.channelId \in inDispute THEN "Channel in dispute"
        ELSE IF ~(u.nonce >= channel.nonce) THEN "Invalid nonce"
        ELSE IF ~(u.balance1 + u.balance2 = channel.balance1 + channel.balance2)
             THEN "Invalid balance sum"
        ELSE IF Malformed(u.signature1) THEN "ECDSA: invalid signature length"
        ELSE IF ~isValidSignature(messageHash, u.signature1, channel.participant1)
             THEN "Invalid signature from participant1"
        ELSE IF Malformed(u.signature2) THEN "ECDSA: invalid signature length"
        ELSE IF ~isValidSignature(messageHash, u.signature2, channel.participant2)
             THEN "Invalid signature from participant2"
        ELSE OK

\* updateChannel that verifies signature1 only
updateChannelErr_OneSignature(u) ==
    LET channel == Chan(u.channelId)
        messageHash == StateUpdateHash(u)
    IN  IF ~channel.isActive THEN "Channel not active"
        ELSE IF u.channelId \in inDispute THEN "Channel in dispute"
        ELSE IF ~(u.nonce > channel.nonce) THEN "Invalid nonce"
        ELSE IF ~(u.balance1 + u.balance2 = channel.balance1 + channel.balance2)
             THEN "Invalid balance sum"
        ELSE IF Malformed(u.signature1) THEN "ECDSA: invalid signature length"
        ELSE IF ~isValidSignature(messageHash, u.signature1, channel.participant1)
             THEN "Invalid signature from participant1"
        ELSE OK

\* updateChannel without the notInDispute modifier
updateChannelErr_NoDisputeCheck(u) ==
    LET channel == Chan(u.channelId)
        messageHash == StateUpdateHash(u)
    IN  IF ~channel.isActive THEN "Channel not active"
        ELSE IF ~(u.nonce > channel.nonce) THEN "Invalid nonce"
        ELSE IF ~(u.balance1 + u.balance2 = channel.balance1 + channel.balance2)
             THEN "Invalid balance sum"
        ELSE IF Malformed(u.signature1) THEN "ECDSA: invalid signature length"
        ELSE IF ~isValidSignature(messageHash, u.signature1, channel.participant1)
             THEN "Invalid signature from participant1"
        ELSE IF Malformed(u.signature2) THEN "ECDSA: invalid signature length"
        ELSE IF ~isValidSignature(messageHash, u.signature2, channel.participant2)
             THEN "Invalid signature from participant2"
        ELSE OK

\* the modifiers and requires of updateChannel, in the order they run
updateChannelErr(u) ==
    LET channel == Chan(u.channelId)
        messageHash == StateUpdateHash(u)
    IN  IF ~channel.isActive THEN "Channel not active"
        ELSE IF u.channelId \in inDispute THEN "Channel in dispute"
        ELSE IF ~(u.nonce > channel.nonce) THEN "Invalid nonce"
        ELSE IF ~(u.balance1 + u.balance2 = channel.balance1 + channel.balance2)
             THEN "Invalid balance sum"
        ELSE IF Malformed(u.signature1) THEN "ECDSA: invalid signature length"
        ELSE IF ~isValidSignature(messageHash, u.signature1, channel.participant1)
             THEN "Invalid signature from participant1"
        ELSE IF Malformed(u.signature2) THEN "ECDSA: invalid signature length"
        ELSE IF ~isValidSignature(messageHash, u.signature2, channel.participant2)
             THEN "Invalid signature from participant2"
        ELSE OK

\* an accepted update that writes the balances and leaves the stored nonce
ApplyUpdate_KeepsNonce(chs, u) ==
    [chs EXCEPT ![u.channelId] =
        [@ EXCEPT !.balance1 = u.balance1, !.balance2 = u.balance2]]

\* the storage writes of an accepted update
ApplyUpdate(chs, u) ==
    [chs EXCEPT ![u.channelId] =
        [@ EXCEPT !.balance1 = u.balance1, !.balance2 = u.balance2, !.nonce = u.nonce]]

\* updateChannel that also charges the relayer fee to the caller's benefit
updateChannel_Charged(sender, u) ==
    LET err == updateChannelErr(u)
    IN  IF err # OK \/ balance < relayerFee THEN Revert
        ELSE /\ channels' = ApplyUpdate(channels, u)
             /\ balance' = balance - relayerFee
             /\ last' = Done("updateChannel", sender, u.channelId, u,
                             <<(<<sender, relayerFee>>)>>)
             /\ UNCHANGED <<disputeTimeouts, inDispute, authorizedRelayers,
                            channelFee, relayerFee, now, opens, opened>>

updateChannel(sender, u) ==
    LET err == updateChannelErr(u)
    IN  IF err # OK THEN Revert
        ELSE /\ channels' = ApplyUpdate(channels, u)
             /\ last' = Done("updateChannel", sender, u.channelId, u, <<>>)
             /\ UNCHANGED <<disputeTimeouts, inDispute, authorizedRelayers,
                            channelFee, relayerFee, balance, now, opens, opened>>

\* ----------------------------------------------------------- closeChannel
\* closeChannel without the notInDispute modifier
closeModifiersErr_NoDisputeCheck(sender, channelId) ==
    IF ~onlyParticipant(sender, channelId) THEN "Not a channel participant"
    ELSE IF ~Chan(channelId).isActive THEN "Channel not active"
    ELSE OK

\* the modifiers of closeChannel, in the order they run
closeModifiersErr(sender, channelId) ==
    IF ~onlyParticipant(sender, channelId) THEN "Not a channel participant"
    ELSE IF ~Chan(channelId).isActive THEN "Channel not active"
    ELSE IF channelId \in inDispute THEN "Channel in dispute"
    ELSE OK

\* a close that checks the final update and then settles the stored balances
AfterFinalUpdate_Dropped(finalUpdate) == channels

\* the channel store after the final update, when one is provided
AfterFinalUpdate(finalUpdate) ==
    IF finalUpdate.nonce > 0 THEN ApplyUpdate(channels, finalUpdate) ELSE channels

closeChannelErr(sender, channelId, finalUpdate) ==
    IF closeModifiersErr(sender, channelId) # OK
    THEN closeModifiersErr(sender, channelId)
    ELSE IF finalUpdate.nonce > 0 /\ updateChannelErr(finalUpdate) # OK
    THEN updateChannelErr(finalUpdate)
    ELSE LET channel == AfterFinalUpdate(finalUpdate)[channelId]
         IN  IF ~CanPay(balance, channel.balance1, channel.balance2)
             THEN "transfer failed"
             ELSE OK

closeChannel(sender, channelId, finalUpdate) ==
    LET err == closeChannelErr(sender, channelId, finalUpdate)
        chs == AfterFinalUpdate(finalUpdate)
        channel == chs[channelId]
    IN  IF err # OK THEN Revert
        ELSE /\ channels' = [chs EXCEPT ![channelId].isActive = FALSE]
             /\ balance' = balance - channel.balance1 - channel.balance2
             /\ last' = Done("closeChannel", sender, channelId, finalUpdate,
                    (IF channel.balance1 > 0
                     THEN <<(<<channel.participant1, channel.balance1>>)>> ELSE <<>>)
                    \o (IF channel.balance2 > 0
                        THEN <<(<<channel.participant2, channel.balance2>>)>> ELSE <<>>))
             /\ UNCHANGED <<disputeTimeouts, inDispute, authorizedRelayers,
                            channelFee, relayerFee, now, opens, opened>>

\* --------------------------------------------------------- disputeChannel
\* disputeChannel without the onlyActive modifier
disputeChannelErr_NoActiveCheck(sender, channelId) ==
    IF ~onlyParticipant(sender, channelId) THEN "Not a channel participant"
    ELSE IF channelId \in inDispute THEN "Already in dispute"
    ELSE OK

\* disputeChannel without the require on the dispute flag
disputeChannelErr_Repeatable(sender, channelId) ==
    IF ~onlyParticipant(sender, channelId) THEN "Not a channel participant"
    ELSE IF ~Chan(channelId).isActive THEN "Channel not active"
    ELSE OK

disputeChannelErr(sender, channelId) ==
    IF ~onlyParticipant(sender, channelId) THEN "Not a channel participant"
    ELSE IF ~Chan(channelId).isActive THEN "Channel not active"
    ELSE IF channelId \in inDispute THEN "Already in dispute"
    ELSE OK

\* disputeChannel that sets the flag and records no deadline
disputeChannel_NoDeadline(sender, channelId) ==
    IF disputeChannelErr(sender, channelId) # OK THEN Revert
    ELSE /\ inDispute' = inDispute \cup {channelId}
         /\ last' = Done("disputeChannel", sender, channelId, NoUpdate, <<>>)
         /\ UNCHANGED <<channels, disputeTimeouts, authorizedRelayers, channelFee,
                        relayerFee, balance, now, opens, opened>>

disputeChannel(sender, channelId) ==
    IF disputeChannelErr(sender, channelId) # OK THEN Revert
    ELSE /\ inDispute' = inDispute \cup {channelId}
         /\ disputeTimeouts' = Put(disputeTimeouts, channelId, now + DISPUTE_TIMEOUT)
         /\ last' = Done("disputeChannel", sender, channelId, NoUpdate, <<>>)
         /\ UNCHANGED <<channels, authorizedRelayers, channelFee, relayerFee,
                        balance, now, opens, opened>>

\* --------------------------------------------------------- resolveDispute
\* the modifier and requires that run before the update is validated
resolveGuardsErr(sender, channelId) ==
    IF ~onlyParticipant(sender, channelId) THEN "Not a channel participant"
    ELSE IF ~(channelId \in inDispute) THEN "No active dispute"
    ELSE IF ~(now <= Deadline(channelId)) THEN "Dispute timeout exceeded"
    ELSE OK

resolveDisputeErr(sender, channelId, u) ==
    IF resolveGuardsErr(sender, channelId) # OK
    THEN resolveGuardsErr(sender, channelId)
    ELSE updateChannelErr(u)

resolveDispute(sender, channelId, u) ==
    IF resolveDisputeErr(sender, channelId, u) # OK THEN Revert
    ELSE /\ channels' = ApplyUpdate(channels, u)
         /\ inDispute' = inDispute \ {channelId}
         /\ disputeTimeouts' = Del(disputeTimeouts, channelId)
         /\ last' = Done("resolveDispute", sender, channelId, u, <<>>)
         /\ UNCHANGED <<authorizedRelayers, channelFee, relayerFee, balance, now,
                        opens, opened>>

\* ------------------------------------------------------- withdrawTimelock
\* the split rounded up, so that the odd remainder goes to participant1
SplitAmount_RoundUp(totalBalance) == (totalBalance + 1) \div 2

\* totalBalance / 2
SplitAmount(totalBalance) == totalBalance \div 2

\* withdrawTimelock without the require on the deadline
withdrawTimelockErr_NoDeadline(sender, channelId) ==
    LET channel == Chan(channelId)
        totalBalance == channel.balance1 + channel.balance2
        splitAmount == SplitAmount(totalBalance)
    IN  IF ~onlyParticipant(sender, channelId) THEN "Not a channel participant"
        ELSE IF ~(channelId \in inDispute) THEN "No active dispute"
        ELSE IF ~CanPay(balance, splitAmount, totalBalance - splitAmount)
        THEN "transfer failed"
        ELSE OK

withdrawTimelockErr(sender, channelId) ==
    LET channel == Chan(channelId)
        totalBalance == channel.balance1 + channel.balance2
        splitAmount == SplitAmount(totalBalance)
    IN  IF ~onlyParticipant(sender, channelId) THEN "Not a channel participant"
        ELSE IF ~(channelId \in inDispute) THEN "No active dispute"
        ELSE IF ~(now > Deadline(channelId)) THEN "Dispute period not ended"
        ELSE IF ~CanPay(balance, splitAmount, totalBalance - splitAmount)
        THEN "transfer failed"
        ELSE OK

\* withdrawTimelock that leaves inDispute[channelId] set
withdrawTimelock_KeepsDispute(sender, channelId) ==
    LET channel == Chan(channelId)
        totalBalance == channel.balance1 + channel.balance2
        splitAmount == totalBalance \div 2
    IN  IF  \/ ~onlyParticipant(sender, channelId)
            \/ ~(channelId \in inDispute)
            \/ ~(now > Deadline(channelId))
            \/ ~CanPay(balance, splitAmount, totalBalance - splitAmount)
        THEN Revert
        ELSE /\ channels' = [channels EXCEPT ![channelId].isActive = FALSE]
             /\ balance' = balance - splitAmount - (totalBalance - splitAmount)
             /\ last' = Done("withdrawTimelock", sender, channelId, NoUpdate,
                    <<(<<channel.participant1, splitAmount>>),
                      (<<channel.participant2, totalBalance - splitAmount>>)>>)
             /\ UNCHANGED <<disputeTimeouts, inDispute, authorizedRelayers, channelFee,
                            relayerFee, now, opens, opened>>

withdrawTimelock(sender, channelId) ==
    LET channel == Chan(channelId)
        totalBalance == channel.balance1 + channel.balance2
        splitAmount == SplitAmount(totalBalance)
    IN  IF withdrawTimelockErr(sender, channelId) # OK THEN Revert
        ELSE /\ channels' = [channels EXCEPT ![channelId].isActive = FALSE]
             /\ inDispute' = inDispute \ {channelId}
             /\ balance' = balance - splitAmount - (totalBalance - splitAmount)
             /\ last' = Done("withdrawTimelock", sender, channelId, NoUpdate,
                    <<(<<channel.participant1, splitAmount>>),
                      (<<channel.participant2, totalBalance - splitAmount>>)>>)
             /\ UNCHANGED <<disputeTimeouts, authorizedRelayers, channelFee,
                            relayerFee, now, opens, opened>>

\* --------------------------------------------------------- administration
setYellowNetworkOracle(sender, oracle) ==
    IF ~onlyOwner(sender) THEN Revert
    ELSE /\ yellowNetworkOracle' = oracle
         /\ last' = NoCall
         /\ UNCHANGED <<contractState, now, opens, opened>>

setRelayerAuthorization(sender, relayer, authorized) ==
    IF ~onlyOwner(sender) THEN Revert
    ELSE /\ authorizedRelayers' = IF authorized THEN authorizedRelayers \cup {relayer}
                                  ELSE authorizedRelayers \ {relayer}
         /\ last' = NoCall
         /\ UNCHANGED <<channels, disputeTimeouts, inDispute, channelFee, relayerFee,
                        balance, now, opens, opened>>

updateFees(sender, newChannelFee, newRelayerFee) ==
    IF ~onlyOwner(sender) THEN Revert
    ELSE /\ channelFee' = newChannelFee
         /\ relayerFee' = newRelayerFee
         /\ last' = NoCall
         /\ UNCHANGED <<channels, disputeTimeouts, inDispute, authorizedRelayers,
                        balance, now, opens, opened>>

\* ------------------------------------------------------- relayTransaction
\* relayTransaction's requires without the authorization check
relayGuardsErr_NoAuthorization(u, relayer, relayerSignature) ==
    IF Malformed(relayerSignature) THEN "ECDSA: invalid signature length"
    ELSE IF ~isValidSignature(RelayHash(u, relayer), relayerSignature, relayer)
    THEN "Invalid relayer signature"
    ELSE OK

relayGuardsErr(u, relayer, relayerSignature) ==
    IF ~(relayer \in authorizedRelayers) THEN "Unauthorized relayer"
    ELSE IF Malformed(relayerSignature) THEN "ECDSA: invalid signature length"
    ELSE IF ~isValidSignature(RelayHash(u, relayer), relayerSignature, relayer)
    THEN "Invalid relayer signature"
    ELSE OK

\* relayTransaction that pays the relayer without validating the update
relayTransactionErr_NoUpdateCheck(u, relayer, relayerSignature) ==
    IF relayGuardsErr(u, relayer, relayerSignature) # OK
    THEN relayGuardsErr(u, relayer, relayerSignature)
    ELSE IF ~CanPay(balance, relayerFee, 0) THEN "transfer failed"
    ELSE OK

relayTransactionErr(u, relayer, relayerSignature) ==
    IF relayGuardsErr(u, relayer, relayerSignature) # OK
    THEN relayGuardsErr(u, relayer, relayerSignature)
    ELSE IF updateChannelErr(u) # OK THEN updateChannelErr(u)
    ELSE IF ~CanPay(balance, relayerFee, 0) THEN "transfer failed"
    ELSE OK

relayTransaction(sender, u, relayer, relayerSignature) ==
    IF relayTransactionErr(u, relayer, relayerSignature) # OK THEN Revert
    ELSE /\ channels' = ApplyUpdate(channels, u)
         /\ balance' = balance - relayerFee
         /\ last' = Done("relayTransaction", sender, u.channelId, u,
                         <<(<<relayer, relayerFee>>)>>)
         /\ UNCHANGED <<disputeTimeouts, inDispute, authorizedRelayers, channelFee,
                        relayerFee, now, opens, opened>>

\* ----------------------------------------------------------- withdrawFees
\* withdrawFees that the oracle address may call as well
withdrawFeesErr_OracleToo(sender) ==
    IF ~(onlyOwner(sender) \/ sender = yellowNetworkOracle)
    THEN "Ownable: caller is not the owner"
    ELSE IF ~(balance > 0) THEN "No fees to withdraw"
    ELSE OK

withdrawFeesErr(sender) ==
    IF ~onlyOwner(sender) THEN "Ownable: caller is not the owner"
    ELSE IF ~(balance > 0) THEN "No fees to withdraw"
    ELSE OK

withdrawFees(sender) ==
    IF withdrawFeesErr(sender) # OK THEN Revert
    ELSE /\ balance' = 0
         /\ last' = Done("withdrawFees", sender, ZeroHash, NoUpdate,
                         <<(<<Owner, balance>>)>>)
         /\ UNCHANGED <<channels, disputeTimeouts, inDispute, authorizedRelayers,
                        channelFee, relayerFee, now, opens, opened>>

\* ------------------------------------------------------ emergencyWithdraw
\* emergencyWithdraw's checks without the one that the channel is inactive
emergencyWithdrawErr_NoActiveCheck(sender, channelId) ==
    LET channel == Chan(channelId)
    IN  IF ~onlyOwner(sender) THEN "Ownable: caller is not the owner"
        ELSE IF channel.balance1 + channel.balance2 > 0
                /\ ~CanPay(balance, channel.balance1, channel.balance2)
        THEN "transfer failed"
        ELSE OK

emergencyWithdrawErr(sender, channelId) ==
    LET channel == Chan(channelId)
    IN  IF ~onlyOwner(sender) THEN "Ownable: caller is not the owner"
        ELSE IF channel.isActive THEN "Channel still active"
        ELSE IF channel.balance1 + channel.balance2 > 0
                /\ ~CanPay(balance, channel.balance1, channel.balance2)
        THEN "transfer failed"
        ELSE OK

emergencyWithdraw(sender, channelId) ==
    LET channel == Chan(channelId)
        totalBalance == channel.balance1 + channel.balance2
    IN  IF emergencyWithdrawErr(sender, channelId) # OK THEN Revert
        ELSE IF totalBalance > 0
        THEN /\ channels' = [channels EXCEPT ![channelId].balance1 = 0,
                                             ![channelId].balance2 = 0]
             /\ balance' = balance - channel.balance1 - channel.balance2
             /\ last' = Done("emergencyWithdraw", sender, channelId, NoUpdate,
                    <<(<<channel.participant1, channel.balance1>>),
                      (<<channel.participant2, channel.balance2>>)>>)
             /\ UNCHANGED <<disputeTimeouts, inDispute, authorizedRelayers,
                            channelFee, relayerFee, now, opens, opened>>
        ELSE /\ last' = Done("emergencyWithdraw", sender, channelId, NoUpdate, <<>>)
             /\ UNCHANGED <<contractState, now, opens, opened>>

\* ------------------------------------------------------------- inputs
KnownIds == (DOMAIN channels) \cup {ZeroHash}

\* signature pairs a caller can attach to the update (id, n, b1, b2) of a channel
\* with participants p1 and p2: both sign this state; the two signatures
\* exchanged; one of them made over the next nonce instead; one of them absent;
\* one of them made by a third party
SigArgs(id, n, b1, b2) ==
    LET p1 == Chan(id).participant1
        p2 == Chan(id).participant2
        h == <<id, n, b1, b2>>
        other == <<id, n + 1, b1, b2>>
    IN  {<<Sign(p1, h), Sign(p2, h)>>, <<Sign(p2, h), Sign(p1, h)>>,
         <<Sign(p1, h), Sign(p2, other)>>, <<Sign(p1, other), Sign(p2, h)>>,
         <<Sign(p1, h), EmptySig>>, <<EmptySig, Sign(p2, h)>>,
         <<Sign(p1, h), Sign(Relayer, h)>>, <<Sign(Relayer, h), Sign(p2, h)>>}

MkUpdate(id, n, b1, b2, s) ==
    [channelId |-> id, nonce |-> n, balance1 |-> b1, balance2 |-> b2,
     signature1 |-> s[1], signature2 |-> s[2]]

\* the checks of updateChannel that run before the signatures are read
preSignatureErr(id, n, b1, b2) ==
    updateChannelErr(MkUpdate(id, n, b1, b2, <<EmptySig, EmptySig>>))

\* the updates submitted for channel id: every nonce and balance pair where the
\* modifiers of updateChannel let the call through, and every signature pair
\* where the call gets as far as reading the signatures
UpdateArgsFor(id) ==
    IF Chan(id).isActive /\ ~(id \in inDispute)
    THEN UNION {IF preSignatureErr(id, n, b[1], b[2]) = "ECDSA: invalid signature length"
                THEN {MkUpdate(id, n, b[1], b[2], s) : s \in SigArgs(id, n, b[1], b[2])}
                ELSE {MkUpdate(id, n, b[1], b[2], <<EmptySig, EmptySig>>)}
                    : n \in 0..MaxNonce, b \in AmountArgs}
    ELSE {MkUpdate(id, 1, 0, 0, <<EmptySig, EmptySig>>)}

\* the updates submitted for the known channel ids
UpdateArgs == UNION {UpdateArgsFor(id) : id \in KnownIds}

\* ------------------------------------------------------------------ time
\* a later block
Mine ==
    /\ UNCHANGED <<callState, unwritten>>
    /\ \E t \in Times :
           /\ t > now
           /\ now' = t
           /\ last' = NoCall
           /\ UNCHANGED <<contractState, opens, opened>>

\* ---------------------------------------------------------------- calls
OpenChannel ==
    /\ UNCHANGED <<callState, unwritten>>
    /\ opens < MaxOpens
    /\ now \in OpenTimes
    /\ \E p1 \in Party1Args, p2 \in Party2Args, a \in OpenAmountArgs,
          timeout \in TimeoutArgs, short \in {0, 1} :
            /\ a[1] + a[2] + channelFee - short >= 0
            /\ openChannel(Alice, p1, p2, a[1], a[2], timeout,
                           a[1] + a[2] + channelFee - short)

UpdateChannel ==
    /\ UNCHANGED <<callState, unwritten>>
    /\ \E u \in UpdateArgs : updateChannel(Relayer, u)

\* the final update is read only when the modifiers let the call through
CloseChannel ==
    /\ UNCHANGED <<callState, unwritten>>
    /\ \E sender \in Callers, channelId \in KnownIds :
           IF closeModifiersErr(sender, channelId) = OK
           THEN \E u \in UpdateArgs : closeChannel(sender, channelId, u)
           ELSE closeChannel(sender, channelId, NoUpdate)

DisputeChannel ==
    /\ UNCHANGED <<callState, unwritten>>
    /\ \E sender \in Callers, channelId \in KnownIds : disputeChannel(sender, channelId)

\* the update is read only when the dispute checks let the call through
ResolveDispute ==
    /\ UNCHANGED <<callState, unwritten>>
    /\ \E sender \in Callers, channelId \in KnownIds :
           IF resolveGuardsErr(sender, channelId) = OK
           THEN \E u \in UpdateArgs : resolveDispute(sender, channelId, u)
           ELSE resolveDispute(sender, channelId, NoUpdate)

WithdrawTimelock ==
    /\ UNCHANGED <<callState, unwritten>>
    /\ \E sender \in Callers, channelId \in KnownIds : withdrawTimelock(sender, channelId)

SetRelayerAuthorization ==
    /\ UNCHANGED <<callState, unwritten>>
    /\ \E sender \in Callers, relayer \in RelayerArgs, authorized \in BOOLEAN :
           setRelayerAuthorization(sender, relayer, authorized)

UpdateFees ==
    /\ UNCHANGED <<callState, unwritten>>
    /\ \E sender \in Callers, f \in FeeArgs : updateFees(sender, f[1], f[2])

\* the update is read only when the relayer's own checks let the call through
RelayTransaction ==
    /\ UNCHANGED <<callState, unwritten>>
    /\ \E relayer \in RelayerArgs, signer \in {Relayer, Alice}, onRelayHash \in BOOLEAN :
           IF relayer \in authorizedRelayers /\ signer = relayer /\ onRelayHash
           THEN \E u \in UpdateArgs :
                   relayTransaction(relayer, u, relayer, Sign(signer, RelayHash(u, relayer)))
           ELSE relayTransaction(relayer, NoUpdate, relayer,
                   Sign(signer, IF onRelayHash THEN RelayHash(NoUpdate, relayer)
                                ELSE StateUpdateHash(NoUpdate)))

WithdrawFees ==
    /\ UNCHANGED <<callState, unwritten>>
    /\ \E sender \in Callers : withdrawFees(sender)

EmergencyWithdraw ==
    /\ UNCHANGED <<callState, unwritten>>
    /\ \E sender \in Callers, channelId \in DOMAIN channels :
           emergencyWithdraw(sender, channelId)

Next ==
    \/ Mine
    \/ OpenChannel
    \/ UpdateChannel
    \/ CloseChannel
    \/ DisputeChannel
    \/ ResolveDispute
    \/ WithdrawTimelock
    \/ SetRelayerAuthorization
    \/ RelayTransaction
    \/ WithdrawFees
    \/ EmergencyWithdraw

\* the engine under the fees it is deployed with
Spec == Init /\ [][Next]_vars

\* the engine with the administrator changing the fees as well
NextFees == Next \/ UpdateFees

SpecFees == Init /\ [][NextFees]_vars

SetYellowNetworkOracle ==
    /\ UNCHANGED <<callState, seenUpdate, settled, circleState>>
    /\ \E sender \in Callers, oracle \in OracleArgs :
           setYellowNetworkOracle(sender, oracle)

\* the engine with every administrative function
NextAdmin == NextFees \/ SetYellowNetworkOracle

SpecAdmin == Init /\ [][NextAdmin]_vars

\* the engine under its deployed fees with the oracle address being replaced
NextOracle == Next \/ SetYellowNetworkOracle

SpecOracle == Init /\ [][NextOracle]_vars

\* the open of a channel between the same two parties in the other order
OpenSecondChannel ==
    /\ UNCHANGED <<callState, unwritten>>
    /\ opens < MaxOpens
    /\ now \in OpenTimes
    /\ openChannel(Bob, Bob, Alice, 1, 0, MIN_TIMEOUT, 1 + channelFee)

\* two channels side by side: opens, updates, closes and disputes
NextCross ==
    \/ OpenChannel
    \/ OpenSecondChannel
    \/ UpdateChannel
    \/ CloseChannel
    \/ DisputeChannel
    \/ ResolveDispute

SpecCross == Init /\ [][NextCross]_vars

\* the last call accepted an update, and its content goes on record
Remember ==
    /\ seenUpdate = Unseen
    /\ \/ last.op \in {"updateChannel", "relayTransaction", "resolveDispute"}
       \/ last.op = "closeChannel" /\ last.update.nonce > 0
    /\ seenUpdate' = last.update
    /\ UNCHANGED <<contractState, now, opens, opened, last, callState,
                   yellowNetworkOracle, settled, circleState>>

\* the engine with one of the accepted updates kept on record
NextReplay == Next \/ Remember

SpecReplay == Init /\ [][NextReplay]_vars

\* the amount the transfers in paid have sent to who
RECURSIVE SentTo(_, _)
SentTo(paid, who) ==
    IF paid = <<>> THEN 0
    ELSE (IF Head(paid)[1] = who THEN Head(paid)[2] ELSE 0) + SentTo(Tail(paid), who)

\* the last call opened a channel or paid one out, and is not counted yet
Uncounted ==
    /\ last.op \in {"openChannel", "closeChannel", "withdrawTimelock", "emergencyWithdraw"}
    /\ settled.of # last

\* the last call is counted: an open starts the channel's count at 0, a payout
\* adds what it has sent to the two participants
Count ==
    /\ Uncounted
    /\ settled' =
            [of |-> last,
             paid |-> Put(settled.paid, last.id,
                          IF last.op = "openChannel" THEN 0
                          ELSE (IF last.id \in DOMAIN settled.paid
                                THEN settled.paid[last.id] ELSE 0)
                               + SentTo(last.paid, Chan(last.id).participant1)
                               + SentTo(last.paid, Chan(last.id).participant2))]
    /\ UNCHANGED <<contractState, now, opens, opened, last, callState,
                   yellowNetworkOracle, seenUpdate, circleState>>

\* the engine with the payouts of every channel counted, each call before the next
NextPayout ==
    \/ ~Uncounted /\ Mine
    \/ ~Uncounted /\ OpenChannel
    \/ ~Uncounted /\ UpdateChannel
    \/ ~Uncounted /\ CloseChannel
    \/ ~Uncounted /\ DisputeChannel
    \/ ~Uncounted /\ ResolveDispute
    \/ ~Uncounted /\ WithdrawTimelock
    \/ ~Uncounted /\ SetRelayerAuthorization
    \/ ~Uncounted /\ RelayTransaction
    \/ ~Uncounted /\ WithdrawFees
    \/ ~Uncounted /\ EmergencyWithdraw
    \/ Count

SpecPayout == Init /\ [][NextPayout]_vars

\* ====================================================================
\* Calls that run transfer by transfer
\* ====================================================================
\* A function that pays out writes its effects, then issues its transfers one
\* at a time.  Each transfer hands control to the recipient, which may call
\* back into the contract before it returns; a transfer that cannot be paid
\* reverts the whole call.  Calls made from inside a transfer run from entry
\* to exit in one step.

\* the functions that perform an outbound transfer
TransferOps ==
    {"closeChannel", "withdrawTimelock", "relayTransaction", "withdrawFees",
     "emergencyWithdraw"}

\* the functions that carry the nonReentrant modifier
nonReentrantOps == {"openChannel", "closeChannel", "withdrawTimelock", "withdrawFees"}

nonReentrantErr(op) ==
    IF op \in nonReentrantOps /\ locked THEN "ReentrancyGuard: reentrant call" ELSE OK

\* the call passes every check that runs before its transfers
Enters(err) == err \in {OK, "transfer failed"}

\* the recipient of the transfer in progress
Callee == Head(frame.pending)[1]

\* entry into a function: the storage it has written when it reaches its first
\* transfer, and the transfers it is about to issue
Begin(op, id, u, chs, disputed, transfers) ==
    /\ frame' = [stage |-> "run", op |-> op, id |-> id, update |-> Content(u),
                 before |-> contractState, pending |-> transfers, paid |-> <<>>,
                 entered |-> {}]
    /\ locked' = (op \in nonReentrantOps)
    /\ UNCHANGED unwritten
    /\ channels' = chs
    /\ inDispute' = disputed
    /\ UNCHANGED <<disputeTimeouts, authorizedRelayers, channelFee, relayerFee,
                   balance, now, opens, opened, last>>

BeginCloseChannel ==
    /\ frame.stage = "idle"
    /\ \E sender \in Callers, channelId \in KnownIds :
        /\ closeModifiersErr(sender, channelId) = OK
        /\ \E finalUpdate \in UpdateArgs \cup {NoUpdate} :
            /\ Enters(closeChannelErr(sender, channelId, finalUpdate))
            /\ LET chs == AfterFinalUpdate(finalUpdate)
                   channel == chs[channelId]
               IN  Begin("closeChannel", channelId, finalUpdate,
                         [chs EXCEPT ![channelId].isActive = FALSE], inDispute,
                         (IF channel.balance1 > 0
                          THEN <<(<<channel.participant1, channel.balance1>>)>> ELSE <<>>)
                         \o (IF channel.balance2 > 0
                             THEN <<(<<channel.participant2, channel.balance2>>)>>
                             ELSE <<>>))

BeginWithdrawTimelock ==
    /\ frame.stage = "idle"
    /\ \E sender \in Callers, channelId \in KnownIds :
        /\ Enters(withdrawTimelockErr(sender, channelId))
        /\ LET channel == Chan(channelId)
               totalBalance == channel.balance1 + channel.balance2
               splitAmount == SplitAmount(totalBalance)
           IN  Begin("withdrawTimelock", channelId, NoUpdate,
                     [channels EXCEPT ![channelId].isActive = FALSE],
                     inDispute \ {channelId},
                     <<(<<channel.participant1, splitAmount>>),
                       (<<channel.participant2, totalBalance - splitAmount>>)>>)

BeginRelayTransaction ==
    /\ frame.stage = "idle"
    /\ \E relayer \in RelayerArgs, u \in UpdateArgs :
        /\ Enters(relayTransactionErr(u, relayer, Sign(relayer, RelayHash(u, relayer))))
        /\ Begin("relayTransaction", u.channelId, u, ApplyUpdate(channels, u), inDispute,
                 <<(<<relayer, relayerFee>>)>>)

BeginWithdrawFees ==
    /\ frame.stage = "idle"
    /\ \E sender \in Callers :
        /\ Enters(withdrawFeesErr(sender))
        /\ Begin("withdrawFees", ZeroHash, NoUpdate, channels, inDispute,
                 <<(<<Owner, balance>>)>>)

BeginEmergencyWithdraw ==
    /\ frame.stage = "idle"
    /\ \E sender \in Callers, channelId \in DOMAIN channels :
        /\ Enters(emergencyWithdrawErr(sender, channelId))
        /\ LET channel == Chan(channelId)
           IN  Begin("emergencyWithdraw", channelId, NoUpdate, channels, inDispute,
                     IF channel.balance1 + channel.balance2 > 0
                     THEN <<(<<channel.participant1, channel.balance1>>),
                            (<<channel.participant2, channel.balance2>>)>>
                     ELSE <<>>)

\* the next transfer is paid and the recipient's code runs
Transfer ==
    /\ frame.stage = "run"
    /\ UNCHANGED unwritten
    /\ frame.pending # <<>>
    /\ balance >= Head(frame.pending)[2]
    /\ balance' = balance - Head(frame.pending)[2]
    /\ frame' = [frame EXCEPT !.stage = "callback",
                              !.paid = Append(@, Head(frame.pending))]
    /\ UNCHANGED <<channels, disputeTimeouts, inDispute, authorizedRelayers,
                   channelFee, relayerFee, now, opens, opened, last, locked>>

\* the call that reverted
Reverted(f) == [op |-> "reverted", id |-> f.id, update |-> f.update, paid |-> f.paid]

\* a failing transfer that returns the funds but leaves the channel records as
\* the function has written them
TransferFails_KeepsWrites ==
    /\ frame.stage = "run"
    /\ UNCHANGED unwritten
    /\ frame.pending # <<>>
    /\ balance < Head(frame.pending)[2]
    /\ disputeTimeouts' = frame.before[2]
    /\ inDispute' = frame.before[3]
    /\ authorizedRelayers' = frame.before[4]
    /\ channelFee' = frame.before[5]
    /\ relayerFee' = frame.before[6]
    /\ balance' = frame.before[7]
    /\ locked' = FALSE
    /\ frame' = NoFrame
    /\ last' = Reverted(frame)
    /\ UNCHANGED <<channels, now, opens, opened>>

\* the next transfer cannot be paid: the call reverts, and with it everything
\* that was written and paid since its entry
TransferFails ==
    /\ frame.stage = "run"
    /\ UNCHANGED unwritten
    /\ frame.pending # <<>>
    /\ balance < Head(frame.pending)[2]
    /\ channels' = frame.before[1]
    /\ disputeTimeouts' = frame.before[2]
    /\ inDispute' = frame.before[3]
    /\ authorizedRelayers' = frame.before[4]
    /\ channelFee' = frame.before[5]
    /\ relayerFee' = frame.before[6]
    /\ balance' = frame.before[7]
    /\ locked' = FALSE
    /\ frame' = NoFrame
    /\ last' = Reverted(frame)
    /\ UNCHANGED <<now, opens, opened>>

\* the recipient returns
Return ==
    /\ frame.stage = "callback"
    /\ UNCHANGED unwritten
    /\ frame' = [frame EXCEPT !.stage = "run", !.pending = Tail(@)]
    /\ UNCHANGED <<contractState, now, opens, opened, last, locked>>

\* what the function writes after its transfers, and its exit
Finish ==
    /\ frame.stage = "run"
    /\ UNCHANGED unwritten
    /\ frame.pending = <<>>
    /\ channels' = IF frame.op = "emergencyWithdraw" /\ frame.paid # <<>>
                   THEN [channels EXCEPT ![frame.id].balance1 = 0,
                                         ![frame.id].balance2 = 0]
                   ELSE channels
    /\ locked' = FALSE
    /\ last' = [op |-> frame.op, id |-> frame.id, update |-> frame.update,
                paid |-> frame.paid]
    /\ frame' = NoFrame
    /\ UNCHANGED <<disputeTimeouts, inDispute, authorizedRelayers, channelFee,
                   relayerFee, balance, now, opens, opened>>

\* the calls the recipient makes from inside the transfer
Entered(op) == frame' = [frame EXCEPT !.entered = @ \cup {op}]

NestedCloseChannel ==
    /\ frame.stage = "callback"
    /\ UNCHANGED unwritten
    /\ \E channelId \in KnownIds :
        IF nonReentrantErr("closeChannel") # OK
           \/ closeChannelErr(Callee, channelId, NoUpdate) # OK
        THEN Revert
        ELSE /\ closeChannel(Callee, channelId, NoUpdate)
             /\ locked' = locked
             /\ Entered("closeChannel")

NestedWithdrawTimelock ==
    /\ frame.stage = "callback"
    /\ UNCHANGED unwritten
    /\ \E channelId \in KnownIds :
        IF nonReentrantErr("withdrawTimelock") # OK
           \/ withdrawTimelockErr(Callee, channelId) # OK
        THEN Revert
        ELSE /\ withdrawTimelock(Callee, channelId)
             /\ locked' = locked
             /\ Entered("withdrawTimelock")

NestedWithdrawFees ==
    /\ frame.stage = "callback"
    /\ UNCHANGED unwritten
    /\ IF nonReentrantErr("withdrawFees") # OK \/ withdrawFeesErr(Callee) # OK
       THEN Revert
       ELSE /\ withdrawFees(Callee)
            /\ locked' = locked
            /\ Entered("withdrawFees")

NestedRelayTransaction ==
    /\ frame.stage = "callback"
    /\ UNCHANGED unwritten
    /\ \E relayer \in RelayerArgs, u \in UpdateArgs :
        IF nonReentrantErr("relayTransaction") # OK
           \/ relayTransactionErr(u, relayer, Sign(relayer, RelayHash(u, relayer))) # OK
        THEN Revert
        ELSE /\ relayTransaction(Callee, u, relayer, Sign(relayer, RelayHash(u, relayer)))
             /\ locked' = locked
             /\ Entered("relayTransaction")

NestedEmergencyWithdraw ==
    /\ frame.stage = "callback"
    /\ UNCHANGED unwritten
    /\ \E channelId \in DOMAIN channels :
        IF nonReentrantErr("emergencyWithdraw") # OK
           \/ emergencyWithdrawErr(Callee, channelId) # OK
        THEN Revert
        ELSE /\ emergencyWithdraw(Callee, channelId)
             /\ locked' = locked
             /\ Entered("emergencyWithdraw")

\* between calls
Idle == frame.stage = "idle"

NextSteps ==
    \/ Idle /\ Mine
    \/ Idle /\ OpenChannel
    \/ Idle /\ DisputeChannel
    \/ Idle /\ SetRelayerAuthorization
    \/ BeginCloseChannel
    \/ BeginWithdrawTimelock
    \/ BeginRelayTransaction
    \/ BeginWithdrawFees
    \/ BeginEmergencyWithdraw
    \/ Transfer
    \/ TransferFails
    \/ Return
    \/ Finish
    \/ NestedCloseChannel
    \/ NestedWithdrawTimelock
    \/ NestedWithdrawFees
    \/ NestedRelayTransaction
    \/ NestedEmergencyWithdraw

\* the engine with its paying functions run transfer by transfer
SpecSteps == Init /\ [][NextSteps]_vars

\* ====================================================================
\* Properties
\* ====================================================================
Total(channel) == channel.balance1 + channel.balance2

\* the update (id, n, b1, b2) carrying the signatures of both participants of id
Signed(id, n, b1, b2) ==
    MkUpdate(id, n, b1, b2,
             <<Sign(Chan(id).participant1, <<id, n, b1, b2>>),
               Sign(Chan(id).participant2, <<id, n, b1, b2>>)>>)

\* the last call applied an update to a channel
Applied(l) ==
    \/ l.op \in {"updateChannel", "relayTransaction", "resolveDispute"}
    \/ l.op = "closeChannel" /\ l.update.nonce > 0

\* a relayer signature that passes relayTransaction's own check
RelaySig(u) == Sign(Relayer, RelayHash(u, Relayer))

\* (balance1, balance2) pairs of the updates the properties range over
BalanceArgs == (0..MaxTotal) \X (0..MaxTotal)

\* u is rejected on every path that applies an update to a channel, whichever
\* participant of whichever channel closes or resolves with it
RejectedEverywhere(u) ==
    /\ updateChannelErr(u) # OK
    /\ relayTransactionErr(u, Relayer, RelaySig(u)) # OK
    /\ \A id \in DOMAIN channels :
        \A sender \in {channels[id].participant1, channels[id].participant2} :
            /\ resolveDisputeErr(sender, id, u) # OK
            /\ u.nonce > 0 => closeChannelErr(sender, id, u) # OK

\* --------------------------------------------------------------------
\* C1  Conservation.  While a channel is active, and in the record that
\* closeChannel settles, balance1 + balance2 is the amount1 + amount2 of the
\* openChannel that wrote the record.  An update whose balance sum differs
\* from the channel's current sum is rejected on every path (with "Invalid
\* balance sum" by updateChannel once the modifiers and the nonce check pass),
\* and every step that applies an update leaves the sum as it was.
C1_SumKept ==
    /\ \A c \in DOMAIN channels :
            channels[c].isActive => Total(channels[c]) = opened[c]
    /\ last.op = "closeChannel" => Total(channels[last.id]) = opened[last.id]
    /\ \A c \in KnownIds, n \in 0..MaxNonce, b \in BalanceArgs :
            b[1] + b[2] # Total(Chan(c)) =>
                /\ RejectedEverywhere(Signed(c, n, b[1], b[2]))
                /\ (Chan(c).isActive /\ c \notin inDispute /\ n > Chan(c).nonce)
                        => updateChannelErr(Signed(c, n, b[1], b[2]))
                                = "Invalid balance sum"

C1_StepKeepsSum ==
    Applied(last') =>
        Total(channels'[last'.update.channelId]) = Total(channels[last'.update.channelId])

C1_Conservation == []C1_SumKept /\ [][C1_StepKeepsSum]_vars

\* a relayed update has moved the whole of a channel opened with (1, 1) to participant2
C1_Witness ==
    /\ last.op = "relayTransaction"
    /\ channels[last.id].isActive
    /\ opened[last.id] = 2
    /\ channels[last.id].balance1 = 0
    /\ channels[last.id].balance2 = 2

\* --------------------------------------------------------------------
\* C2  Monotonic nonce.  An update whose nonce is not above the stored nonce
\* is rejected on every path whatever its signatures (with "Invalid nonce" by
\* updateChannel on an active, undisputed channel); every step that applies an
\* update strictly raises the stored nonce to the update's nonce; and the
\* update updateChannel has just accepted is rejected with "Invalid nonce"
\* when it is submitted again.
C2_StaleRejected ==
    /\ \A c \in KnownIds, n \in 0..MaxNonce, b \in BalanceArgs :
            n <= Chan(c).nonce =>
                \A s \in {<<Sign(Chan(c).participant1, <<c, n, b[1], b[2]>>),
                             Sign(Chan(c).participant2, <<c, n, b[1], b[2]>>)>>,
                           <<Sign(Chan(c).participant1, <<c, n, b[1], b[2]>>), EmptySig>>,
                           <<EmptySig, EmptySig>>} :
                    /\ RejectedEverywhere(MkUpdate(c, n, b[1], b[2], s))
                    /\ (Chan(c).isActive /\ c \notin inDispute)
                            => updateChannelErr(MkUpdate(c, n, b[1], b[2], s))
                                    = "Invalid nonce"
    /\ last.op = "updateChannel" =>
            updateChannelErr(Signed(last.id, last.update.nonce, last.update.balance1,
                                    last.update.balance2)) = "Invalid nonce"

C2_StepRaisesNonce ==
    Applied(last') =>
        /\ channels'[last'.update.channelId].nonce > channels[last'.update.channelId].nonce
        /\ channels'[last'.update.channelId].nonce = last'.update.nonce

BothSigned(u) ==
    /\ u.signature1 = Sign(Chan(u.channelId).participant1, StateUpdateHash(u))
    /\ u.signature2 = Sign(Chan(u.channelId).participant2, StateUpdateHash(u))

C3_DualSignature ==
    \A c \in KnownIds, n \in 0..MaxNonce, b \in BalanceArgs :
        preSignatureErr(c, n, b[1], b[2]) = "ECDSA: invalid signature length" =>
            \A s \in SigArgs(c, n, b[1], b[2]) :
                ~BothSigned(MkUpdate(c, n, b[1], b[2], s))
                    => RejectedEverywhere(MkUpdate(c, n, b[1], b[2], s))

\* an update that is accepted with both signatures is refused, for its signature,
\* with participant2's signature absent, with participant1's made over another
\* state, and with participant2's made by a third party
C3_Witness ==
    \E c \in DOMAIN channels : \E n \in 1..MaxNonce, b \in AmountArgs :
        LET h == <<c, n, b[1], b[2]>>
            p1 == channels[c].participant1
            p2 == channels[c].participant2
        IN  /\ updateChannelErr(Signed(c, n, b[1], b[2])) = OK
            /\ updateChannelErr(MkUpdate(c, n, b[1], b[2], <<Sign(p1, h), EmptySig>>))
                    = "ECDSA: invalid signature length"
            /\ updateChannelErr(MkUpdate(c, n, b[1], b[2],
                    <<Sign(p1, <<c, n + 1, b[1], b[2]>>), Sign(p2, h)>>))
                    = "Invalid signature from participant1"
            /\ updateChannelErr(MkUpdate(c, n, b[1], b[2],
                    <<Sign(p1, h), Sign(Relayer, h)>>))
                    = "Invalid signature from participant2"

\* --------------------------------------------------------------------
\* C4  Dispute exclusivity.  While inDispute[channelId] is true, updateChannel
\* reverts with "Channel in dispute" for every update of that channel, whatever
\* its nonce, balances and signatures.
C4_DisputeExclusivity ==
    \A c \in inDispute, n \in 0..MaxNonce, b \in BalanceArgs :
        \A s \in SigArgs(c, n, b[1], b[2]) :
            updateChannelErr(MkUpdate(c, n, b[1], b[2], s)) = "Channel in dispute"

\* a disputed channel and an update of it that passes every other check
C4_Witness ==
    \E c \in inDispute : \E n \in 1..MaxNonce, b \in AmountArgs :
        /\ n > channels[c].nonce
        /\ b[1] + b[2] = Total(channels[c])
        /\ b[1] # channels[c].balance1
        /\ updateChannelErr(Signed(c, n, b[1], b[2])) = "Channel in dispute"

\* the two participants of a channel
ParticipantsOf(c) == {Chan(c).participant1, Chan(c).participant2}

\* --------------------------------------------------------------------
\* C5  Cooperative resolution.  For a channel in dispute whose deadline has
\* not passed, resolveDispute called by a participant with an update of that
\* channel that has a higher nonce, the same balance sum and both participants'
\* signatures succeeds; after a resolveDispute the channel is out of dispute and
\* holds the balances and nonce of the update.
C5_CooperativeResolution ==
    /\ \A c \in inDispute :
            now <= Deadline(c) =>
                \A sender \in ParticipantsOf(c), n \in 1..MaxNonce, b \in BalanceArgs :
                    (n > Chan(c).nonce /\ b[1] + b[2] = Total(Chan(c)))
                        => resolveDisputeErr(sender, c, Signed(c, n, b[1], b[2])) = OK
    /\ last.op = "resolveDispute" =>
            /\ last.id \notin inDispute
            /\ channels[last.id].nonce = last.update.nonce
            /\ channels[last.id].balance1 = last.update.balance1
            /\ channels[last.id].balance2 = last.update.balance2

\* --------------------------------------------------------------------
\* C6  Timeout split.  A successful withdrawTimelock on a channel with total
\* T = balance1 + balance2 pays floor(T / 2) to participant1 and the rest to
\* participant2, which is exactly T in all and is taken from the contract's
\* balance; the channel was in dispute past its deadline, and afterwards it is
\* inactive and out of dispute.
C6_Split ==
    last.op = "withdrawTimelock" =>
        LET channel == channels[last.id]
            T == Total(channel)
        IN  /\ Len(last.paid) = 2
            /\ last.paid[1][1] = channel.participant1
            /\ last.paid[2][1] = channel.participant2
            /\ 2 * last.paid[1][2] <= T
            /\ T < 2 * last.paid[1][2] + 2
            /\ last.paid[1][2] + last.paid[2][2] = T
            /\ T = opened[last.id]
            /\ ~channel.isActive
            /\ last.id \notin inDispute

C6_StepPays ==
    last'.op = "withdrawTimelock" =>
        /\ channels[last'.id].isActive
        /\ last'.id \in inDispute
        /\ now > Deadline(last'.id)
        /\ balance' = balance - Total(channels[last'.id])
        /\ Total(channels'[last'.id]) = Total(channels[last'.id])

C6_TimeoutSplit == []C6_Split /\ [][C6_StepPays]_vars

\* a timeout withdrawal of an odd total: nothing to participant1, 1 to participant2
C6_Witness ==
    /\ last.op = "withdrawTimelock"
    /\ Total(channels[last.id]) = 1
    /\ last.paid = <<(<<Alice, 0>>), (<<Bob, 1>>)>>

\* --------------------------------------------------------------------
\* C7  Fund liberation.  Whenever a channel is in dispute and its deadline has
\* passed, withdrawTimelock called by either participant succeeds, whatever the
\* administrator, relayers and other callers did in between.
C7_FundLiberation ==
    \A c \in inDispute :
        now > Deadline(c) =>
            \A sender \in ParticipantsOf(c) : withdrawTimelockErr(sender, c) = OK

\* --------------------------------------------------------------------
\* C8  Channel state machine.  The status of a channel id changes only along
\* absent -> Active (openChannel), Active -> Disputed (disputeChannel),
\* Disputed -> Active (resolveDispute), Disputed -> Closed (withdrawTimelock)
\* and Active -> Closed (closeChannel).
Status(chs, disputed, c) ==
    IF c \notin DOMAIN chs THEN "absent"
    ELSE IF ~chs[c].isActive THEN "Closed"
    ELSE IF c \in disputed THEN "Disputed"
    ELSE "Active"

Edges ==
    {<<"absent", "openChannel", "Active">>,
     <<"Active", "disputeChannel", "Disputed">>,
     <<"Disputed", "resolveDispute", "Active">>,
     <<"Disputed", "withdrawTimelock", "Closed">>,
     <<"Active", "closeChannel", "Closed">>}

C8_Step ==
    \A c \in DOMAIN channels' :
        \/ Status(channels', inDispute', c) = Status(channels, inDispute, c)
        \/ <<Status(channels, inDispute, c), last'.op, Status(channels', inDispute', c)>>
                \in Edges

C8_StateMachine == [][C8_Step]_vars

\* --------------------------------------------------------------------
\* C9  A terminated channel is immutable and inert.  Once a channel is
\* inactive, no step changes a field of its record or sets its dispute flag.
C9_Step ==
    \A c \in DOMAIN channels :
        ~channels[c].isActive =>
            /\ channels'[c] = channels[c]
            /\ c \notin inDispute'

C9_TerminatedImmutable == [][C9_Step]_vars

\* --------------------------------------------------------------------
\* C10 (as stated)  On an inactive channel, closeChannel and withdrawTimelock
\* called by a participant both revert with "Channel not active".
C10_BothChannelInactive ==
    \A c \in DOMAIN channels :
        ~channels[c].isActive =>
            \A sender \in ParticipantsOf(c) :
                /\ closeChannelErr(sender, c, NoUpdate) = "Channel not active"
                /\ withdrawTimelockErr(sender, c) = "Channel not active"

\* C10 (amended)  Idempotent termination.  On an inactive channel, closeChannel
\* called by a participant reverts with "Channel not active", with or without
\* a final update, and withdrawTimelock called by a participant reverts with
\* "No active dispute"; a revert transfers nothing and changes no state.
C10_IdempotentTermination ==
    \A c \in DOMAIN channels :
        ~channels[c].isActive =>
            \A sender \in ParticipantsOf(c) :
                /\ withdrawTimelockErr(sender, c) = "No active dispute"
                /\ closeChannelErr(sender, c, NoUpdate) = "Channel not active"
                /\ \A n \in 1..MaxNonce, b \in BalanceArgs :
                        closeChannelErr(sender, c, Signed(c, n, b[1], b[2]))
                            = "Channel not active"

\* a channel closed by a timeout withdrawal, whose balances the contract could
\* pay again, refuses both calls
C10_Witness ==
    /\ last.op = "withdrawTimelock"
    /\ Total(channels[last.id]) > 0
    /\ CanPay(balance, channels[last.id].balance1, channels[last.id].balance2)
    /\ closeChannelErr(Alice, last.id, NoUpdate) = "Channel not active"
    /\ withdrawTimelockErr(Bob, last.id) = "No active dispute"

\* the events a successful call recorded in l has emitted, in order
EmittedBy(l) ==
    IF l.op = "openChannel" THEN <<"ChannelOpened">>
    ELSE IF l.op \in {"updateChannel", "relayTransaction", "resolveDispute"}
    THEN <<"ChannelUpdated">>
    ELSE IF l.op = "closeChannel"
    THEN (IF l.update.nonce > 0 THEN <<"ChannelUpdated">> ELSE <<>>) \o <<"ChannelClosed">>
    ELSE IF l.op = "disputeChannel" THEN <<"ChannelDisputed">>
    ELSE IF l.op = "withdrawTimelock" THEN <<"ChannelClosed">>
    ELSE <<>>

\* the funds deposited as balance1 and balance2 of the channels in ids
RECURSIVE DepositsOf(_, _)
DepositsOf(chs, ids) ==
    IF ids = {} THEN 0
    ELSE LET c == CHOOSE x \in ids : TRUE
         IN  (IF chs[c].isActive THEN Total(chs[c]) ELSE 0) + DepositsOf(chs, ids \ {c})

\* the deposits of the channels that have not been paid out
Deposits(chs) == DepositsOf(chs, DOMAIN chs)

\* --------------------------------------------------------------------
\* C11  Channel ids are unique.  Every successful openChannel writes an id
\* that holds no record yet, so no open overwrites an existing record.
C11_Step == opens' = opens + 1 => last'.id \notin DOMAIN channels

C11_UniqueIds == [][C11_Step]_vars

\* --------------------------------------------------------------------
\* C12  withdrawFees succeeds only for the administrator, and what it
\* transfers leaves the deposits of the channels not yet paid out in the
\* contract: it takes the accumulated fees only.
C12_OnlyOwner ==
    \A sender \in Callers \ {Owner} :
        withdrawFeesErr(sender) = "Ownable: caller is not the owner"

C12_Step ==
    last'.op = "withdrawFees" =>
        /\ last'.paid = <<(<<Owner, balance - balance'>>)>>
        /\ balance' >= Deposits(channels')

C12_FeesOnly == []C12_OnlyOwner /\ [][C12_Step]_vars

\* --------------------------------------------------------------------
\* C13  Relayer authorization.  relayTransaction naming a relayer that is not
\* authorized reverts with "Unauthorized relayer" whatever the update and the
\* relayer signature; naming an authorized relayer, with the relayer's
\* signature over (channelId, nonce, relayer), an update that updateChannel
\* accepts and relayerFee at hand, it succeeds, applies the update and pays
\* exactly relayerFee to that relayer.  authorizedRelayers changes only as
\* setRelayerAuthorization sets it, with nothing else changing.
C13_Gate ==
    \A relayer \in RelayerArgs \cup {Alice} :
        \A c \in DOMAIN channels, n \in 1..MaxNonce, b \in BalanceArgs :
            LET u == Signed(c, n, b[1], b[2])
                sig == Sign(relayer, RelayHash(u, relayer))
            IN  IF relayer \notin authorizedRelayers
                THEN relayTransactionErr(u, relayer, sig) = "Unauthorized relayer"
                ELSE (updateChannelErr(u) = OK /\ balance >= relayerFee)
                        => relayTransactionErr(u, relayer, sig) = OK

C13_Step ==
    /\ last'.op = "relayTransaction" =>
            /\ Len(last'.paid) = 1
            /\ last'.paid[1][1] \in authorizedRelayers
            /\ last'.paid[1][2] = relayerFee
            /\ balance' = balance - relayerFee
            /\ channels'[last'.id].nonce = last'.update.nonce
            /\ channels'[last'.id].balance1 = last'.update.balance1
            /\ channels'[last'.id].balance2 = last'.update.balance2
    /\ authorizedRelayers' # authorizedRelayers =>
            /\ \E relayer \in RelayerArgs :
                    \/ authorizedRelayers' = authorizedRelayers \cup {relayer}
                    \/ authorizedRelayers' = authorizedRelayers \ {relayer}
            /\ UNCHANGED <<channels, disputeTimeouts, inDispute, channelFee, relayerFee,
                           balance>>

C14_Step ==
    last'.op = "relayTransaction" =>
        /\ last'.paid[1][2] = relayerFee
        /\ balance >= Deposits(channels) => balance' >= Deposits(channels')

C14_FeeFromTreasury == [][C14_Step]_vars

\* --------------------------------------------------------------------
\* C15  emergencyWithdraw is a recovery path.  On an active channel it reverts
\* with "Channel still active"; a successful one acts on an inactive channel,
\* and when the record holds a balance it pays balance1 to participant1 and
\* balance2 to participant2 out of the contract's balance, sets both to zero,
\* leaves the rest of the record alone and pays nothing to the administrator.
C15_ActiveRefused ==
    \A c \in DOMAIN channels :
        channels[c].isActive => emergencyWithdrawErr(Owner, c) = "Channel still active"

C15_Step ==
    last'.op = "emergencyWithdraw" =>
        LET channel == channels[last'.id]
        IN  /\ ~channel.isActive
            /\ IF Total(channel) > 0
               THEN /\ last'.paid = <<(<<channel.participant1, channel.balance1>>),
                                      (<<channel.participant2, channel.balance2>>)>>
                    /\ Owner \notin {channel.participant1, channel.participant2}
                    /\ balance' = balance - Total(channel)
                    /\ channels' = [channels EXCEPT ![last'.id].balance1 = 0,
                                                    ![last'.id].balance2 = 0]
               ELSE /\ last'.paid = <<>>
                    /\ UNCHANGED contractState

C16_EmergencyAfterTimeout ==
    \A c \in inDispute :
        now > Deadline(c) => emergencyWithdrawErr(Owner, c) = OK

\* --------------------------------------------------------------------
\* C17  emergencyWithdraw is administrator-gated and event-logged.  Called by
\* anyone but the owner it reverts, and every successful emergencyWithdraw that
\* moves funds emits an event.
C17_GatedAndLogged ==
    /\ \A sender \in Callers \ {Owner}, c \in KnownIds :
            emergencyWithdrawErr(sender, c) = "Ownable: caller is not the owner"
    /\ (last.op = "emergencyWithdraw" /\ last.paid # <<>>) => EmittedBy(last) # <<>>

\* --------------------------------------------------------------------
\* C18  Atomicity.  When a call fails after it has written storage, paid
\* transfers or let the recipient call back in, the channel records, dispute
\* flags and deadlines, relayer authorizations, fees and held funds are what
\* they were when the call was entered, and the re-entrancy lock is released.
C18_Step ==
    (frame.stage # "idle" /\ frame'.stage = "idle" /\ last'.op = "reverted") =>
        /\ contractState' = frame.before
        /\ ~locked'
        /\ UNCHANGED <<now, opens, opened>>

C19_ReentrancyGuard == frame.entered \cap TransferOps = {}

\* --------------------------------------------------------------------
\* C20  Effects before interactions.  While closeChannel, withdrawTimelock or
\* emergencyWithdraw is inside one of its transfers, its own storage writes are
\* in place: the channel is inactive and out of dispute, and in
\* emergencyWithdraw balance1 and balance2 are zero.
C20_EffectsBeforeInteractions ==
    (frame.stage = "callback"
        /\ frame.op \in {"closeChannel", "withdrawTimelock", "emergencyWithdraw"}) =>
        /\ ~channels[frame.id].isActive
        /\ frame.id \notin inDispute
        /\ frame.op = "emergencyWithdraw" =>
                /\ channels[frame.id].balance1 = 0
                /\ channels[frame.id].balance2 = 0

\* --------------------------------------------------------------------
\* C21  Nonce total order.  Take two sum-conserving updates of one active,
\* undisputed channel, each signed by both participants, with
\* u_lo.nonce < u_hi.nonce.  Once updateChannel has accepted u_hi, u_lo is
\* rejected with "Invalid nonce"; once it has accepted u_lo, u_hi is still
\* accepted; and the update accepted last leaves its own nonce and balances
\* in the channel, so both orders of submission end with those of u_hi.
C21_Step ==
    last'.op = "updateChannel" /\ last' # last =>
        \A c \in DOMAIN channels, hi \in 1..MaxNonce :
            c = last'.id /\ hi = last'.update.nonce =>
                /\ channels'[c].nonce = hi
                /\ channels'[c].balance1 = last'.update.balance1
                /\ channels'[c].balance2 = last'.update.balance2
                /\ channels'[c].isActive /\ c \notin inDispute'
                /\ \A n \in 1..MaxNonce, b \in BalanceArgs :
                        b[1] + b[2] = last'.update.balance1 + last'.update.balance2 =>
                            /\ n < hi =>
                                    updateChannelErr(Signed(c, n, b[1], b[2]))'
                                        = "Invalid nonce"
                            /\ n > hi =>
                                    updateChannelErr(Signed(c, n, b[1], b[2]))' = OK

C21_NonceTotalOrder == [][C21_Step]_vars

\* updateChannel has accepted nonce 2 and left it in the channel: the dual-signed
\* nonce 1 with other balances of the same sum is refused
C21_Witness ==
    /\ last.op = "updateChannel"
    /\ last.update.nonce = 2
    /\ Chan(last.id).nonce = 2
    /\ Chan(last.id).balance1 = last.update.balance1
    /\ \E b \in BalanceArgs :
            /\ b[1] + b[2] = Total(Chan(last.id))
            /\ b[1] # last.update.balance1
            /\ updateChannelErr(Signed(last.id, 1, b[1], b[2])) = "Invalid nonce"

\* --------------------------------------------------------------------
\* C22  No signature replay.  The two signatures made for one
\* (channelId, nonce, balance1, balance2) are accepted with no other channel
\* id, nonce or balances; and once a call has accepted an update, the same
\* update with the same signatures is rejected on every path in every later
\* state, whatever was closed or opened in between.
C22_BoundToState ==
    \A c \in DOMAIN channels, n \in 1..MaxNonce, b \in BalanceArgs :
        \A c2 \in KnownIds, n2 \in 1..MaxNonce, b2 \in BalanceArgs :
            <<c2, n2, b2>> # <<c, n, b>> =>
                RejectedEverywhere(
                    MkUpdate(c2, n2, b2[1], b2[2],
                             <<Sign(Chan(c).participant1, <<c, n, b[1], b[2]>>),
                               Sign(Chan(c).participant2, <<c, n, b[1], b[2]>>)>>))

C22_NeverTwice ==
    seenUpdate # Unseen =>
        RejectedEverywhere(Signed(seenUpdate.channelId, seenUpdate.nonce,
                                  seenUpdate.balance1, seenUpdate.balance2))

C22_NoSignatureReplay == C22_BoundToState /\ C22_NeverTwice

\* --------------------------------------------------------------------
\* C23  openChannel validation.  openChannel fails when participant1 equals
\* participant2 or either is the zero address (with "Participants must be
\* different" or "Invalid participants"), when the timeout is below
\* MIN_TIMEOUT or above MAX_TIMEOUT ("Invalid timeout"), and when the value
\* sent is below amount1 + amount2 + channelFee ("Insufficient funds"); it
\* succeeds whenever none of these holds.  Only a successful open adds a
\* channel id or funds to the contract, and it adds a valid record and at
\* least the deposit plus the fee.
C23_Args ==
    [p1 : Party1Args \cup {Bob}, p2 : Party2Args, a : AmountArgs,
     timeout : TimeoutArgs \cup {MAX_TIMEOUT},
     value : {0} \cup (channelFee..(MaxTotal + channelFee))]

C23_Err(x) == openChannelErr(x.p1, x.p2, x.a[1], x.a[2], x.timeout, x.value)

C23_Checks ==
    \A x \in C23_Args :
        LET badParticipants == x.p1 = x.p2 \/ x.p1 = Zero \/ x.p2 = Zero
            badTimeout == x.timeout < MIN_TIMEOUT \/ x.timeout > MAX_TIMEOUT
            badFunds == x.value < x.a[1] + x.a[2] + channelFee
        IN  /\ badParticipants =>
                C23_Err(x) \in {"Participants must be different", "Invalid participants"}
            /\ badTimeout => C23_Err(x) \in {"Participants must be different",
                                               "Invalid participants", "Invalid timeout"}
            /\ badTimeout /\ ~badParticipants => C23_Err(x) = "Invalid timeout"
            /\ badFunds => C23_Err(x) # OK
            /\ badFunds /\ ~badParticipants /\ ~badTimeout
                    => C23_Err(x) = "Insufficient funds"
            /\ ~badParticipants /\ ~badTimeout /\ ~badFunds => C23_Err(x) = OK

C23_ValidRecords ==
    \A c \in DOMAIN channels :
        /\ channels[c].participant1 # channels[c].participant2
        /\ channels[c].participant1 # Zero /\ channels[c].participant2 # Zero
        /\ channels[c].timeout >= MIN_TIMEOUT /\ channels[c].timeout <= MAX_TIMEOUT

C23_Step ==
    /\ opens' = opens => DOMAIN channels' = DOMAIN channels /\ balance' <= balance
    /\ opens' # opens =>
            /\ last'.op = "openChannel"
            /\ balance' >= balance + opened'[last'.id] + channelFee

C23_OpenValidation == [](C23_Checks /\ C23_ValidRecords) /\ [][C23_Step]_vars

\* after a successful open, each of the three faults alone makes the same call fail
C23_Witness ==
    /\ last.op = "openChannel"
    /\ opens = 1
    /\ openChannelErr(Alice, Bob, 1, 0, MIN_TIMEOUT, 1 + channelFee) = OK
    /\ openChannelErr(Alice, Alice, 1, 0, MIN_TIMEOUT, 1 + channelFee)
            = "Participants must be different"
    /\ openChannelErr(Alice, Zero, 1, 0, MIN_TIMEOUT, 1 + channelFee)
            = "Invalid participants"
    /\ openChannelErr(Alice, Bob, 1, 0, MAX_TIMEOUT + 1, 1 + channelFee)
            = "Invalid timeout"
    /\ openChannelErr(Alice, Bob, 1, 0, MIN_TIMEOUT, channelFee) = "Insufficient funds"

\* --------------------------------------------------------------------
\* C24  openChannel effect.  A successful openChannel(p1, p2, amount1,
\* amount2, timeout) leaves under the returned id a record with participant1 =
\* p1, participant2 = p2, balance1 = amount1, balance2 = amount2, nonce 0, the
\* given timeout and isActive true, with no dispute on that id, and leaves the
\* record of every other channel as it was.
C24_Step ==
    opens' # opens =>
        \E p1 \in Party1Args, p2 \in Party2Args, a \in OpenAmountArgs,
           timeout \in TimeoutArgs :
            /\ last'.op = "openChannel"
            /\ last'.id = ChannelIdOf(p1, p2)
            /\ channels'[last'.id] =
                    [participant1 |-> p1, participant2 |-> p2, balance1 |-> a[1],
                     balance2 |-> a[2], nonce |-> 0, timeout |-> timeout,
                     isActive |-> TRUE]
            /\ opened'[last'.id] = a[1] + a[2]
            /\ last'.id \notin inDispute'
            /\ \A d \in DOMAIN channels : d # last'.id => channels'[d] = channels[d]

C24_OpenEffect == [][C24_Step]_vars

\* the two amounts of the ChannelClosed event of closeChannel, read from the
\* record the call leaves in storage
ChannelClosedAmounts(chs, id) == <<chs[id].balance1, chs[id].balance2>>

\* --------------------------------------------------------------------
\* C25  closeChannel settlement.  A closeChannel with a zero-nonce final
\* update, called by a participant of an active, undisputed channel whose
\* balances the contract can pay, succeeds; it marks the channel inactive,
\* transfers exactly balance1 to participant1 and balance2 to participant2,
\* emits ChannelClosed with those two amounts and changes nothing else.  While
\* the channel is in dispute, closeChannel by a participant fails with
\* "Channel in dispute".
C25_Gate ==
    \A c \in DOMAIN channels : \A sender \in ParticipantsOf(c) :
        /\ c \in inDispute => closeChannelErr(sender, c, NoUpdate) = "Channel in dispute"
        /\ (channels[c].isActive /\ c \notin inDispute
                /\ CanPay(balance, channels[c].balance1, channels[c].balance2))
                    => closeChannelErr(sender, c, NoUpdate) = OK

C25_Step ==
    last'.op = "closeChannel" /\ last'.update.nonce = 0 /\ last' # last =>
        \A c \in DOMAIN channels :
            c = last'.id =>
                /\ channels[c].isActive /\ c \notin inDispute
                /\ channels' = [channels EXCEPT ![c].isActive = FALSE]
                /\ SentTo(last'.paid, channels[c].participant1) = channels[c].balance1
                /\ SentTo(last'.paid, channels[c].participant2) = channels[c].balance2
                /\ \A k \in 1..Len(last'.paid) :
                        last'.paid[k][1] \in ParticipantsOf(c)
                /\ balance' = balance - channels[c].balance1 - channels[c].balance2
                /\ EmittedBy(last') = <<"ChannelClosed">>
                /\ ChannelClosedAmounts(channels', c)
                        = <<channels[c].balance1, channels[c].balance2>>
                /\ UNCHANGED <<disputeTimeouts, inDispute, authorizedRelayers,
                               channelFee, relayerFee, now, opens, opened>>

C25_CloseSettlement == []C25_Gate /\ [][C25_Step]_vars

\* a channel with 1 on each side has been closed without a final update
C25_Witness ==
    /\ last.op = "closeChannel"
    /\ last.update.nonce = 0
    /\ last.paid = <<(<<Alice, 1>>), (<<Bob, 1>>)>>
    /\ ~Chan(last.id).isActive

\* --------------------------------------------------------------------
\* C26  closeChannel with a final update.  When closeChannel is called for a
\* channel with a finalUpdate of nonce > 0 for that same channel, it passes
\* only if finalUpdate passes every check of updateChannel, and it fails with
\* the error of updateChannel otherwise; a successful call leaves
\* finalUpdate's nonce and balances in the record, marks it inactive and pays
\* finalUpdate.balance1 to participant1 and finalUpdate.balance2 to
\* participant2.  A rejected call changes nothing: the channel stays active
\* and nothing is paid.
C26_Gate ==
    \A c \in DOMAIN channels : \A sender \in ParticipantsOf(c) :
        \A u \in UpdateArgsFor(c) :
            (u.nonce > 0 /\ closeModifiersErr(sender, c) = OK) =>
                /\ closeChannelErr(sender, c, u) = OK => updateChannelErr(u) = OK
                /\ updateChannelErr(u) # OK
                        => closeChannelErr(sender, c, u) = updateChannelErr(u)
                /\ (updateChannelErr(u) = OK /\ CanPay(balance, u.balance1, u.balance2))
                        => closeChannelErr(sender, c, u) = OK

C26_Step ==
    /\ last'.op = "closeChannel" /\ last'.update.nonce > 0 /\ last' # last =>
        \A c \in DOMAIN channels :
            (c = last'.id /\ last'.update.channelId = c) =>
                /\ channels[c].isActive /\ c \notin inDispute
                /\ last'.update.nonce > channels[c].nonce
                /\ last'.update.balance1 + last'.update.balance2 = Total(channels[c])
                /\ channels' = [channels EXCEPT ![c].isActive = FALSE,
                                                ![c].nonce = last'.update.nonce,
                                                ![c].balance1 = last'.update.balance1,
                                                ![c].balance2 = last'.update.balance2]
                /\ SentTo(last'.paid, channels[c].participant1) = last'.update.balance1
                /\ SentTo(last'.paid, channels[c].participant2) = last'.update.balance2
                /\ balance' = balance - last'.update.balance1 - last'.update.balance2
    /\ \A c \in DOMAIN channels :
            (channels[c].isActive /\ ~channels'[c].isActive) =>
                last'.op \in {"closeChannel", "withdrawTimelock"} /\ last'.id = c
    /\ balance' < balance => last'.op # "none" /\ last' # last

C26_FinalUpdate == []C26_Gate /\ [][C26_Step]_vars

\* a channel opened with (1, 1) has been closed with a final update that gives
\* everything to participant2
C26_Witness ==
    /\ last.op = "closeChannel"
    /\ last.update.nonce > 0
    /\ last.update.channelId = last.id
    /\ opened[last.id] = 2
    /\ last.paid = <<(<<Bob, 2>>)>>
    /\ ~Chan(last.id).isActive

\* --------------------------------------------------------------------
\* C27  disputeChannel effect.  disputeChannel called by a participant of an
\* active channel that is not in dispute succeeds; it sets the dispute flag of
\* that channel, sets its deadline to the current time plus DISPUTE_TIMEOUT
\* and changes nothing else.  Called by a participant on an inactive channel
\* it fails with "Channel not active", on a channel already in dispute with
\* "Already in dispute".
C27_Gate ==
    \A c \in DOMAIN channels : \A sender \in ParticipantsOf(c) :
        /\ ~channels[c].isActive => disputeChannelErr(sender, c) = "Channel not active"
        /\ (channels[c].isActive /\ c \in inDispute)
                => disputeChannelErr(sender, c) = "Already in dispute"
        /\ (channels[c].isActive /\ c \notin inDispute)
                => disputeChannelErr(sender, c) = OK

C27_Step ==
    /\ last'.op = "disputeChannel" /\ last' # last =>
        \A c \in DOMAIN channels :
            c = last'.id =>
                /\ channels[c].isActive /\ c \notin inDispute
                /\ inDispute' = inDispute \cup {c}
                /\ DOMAIN disputeTimeouts' = DOMAIN disputeTimeouts \cup {c}
                /\ disputeTimeouts'[c] = now + DISPUTE_TIMEOUT
                /\ \A d \in DOMAIN disputeTimeouts :
                        d # c => disputeTimeouts'[d] = disputeTimeouts[d]
                /\ last'.paid = <<>>
                /\ UNCHANGED <<channels, authorizedRelayers, channelFee, relayerFee,
                               balance, now, opens, opened>>
    /\ \A c \in inDispute' \ inDispute : last'.op = "disputeChannel" /\ last'.id = c

C28_Gate ==
    \A c \in DOMAIN channels :
        /\ \A sender \in ParticipantsOf(c) :
            /\ (c \in inDispute /\ now > Deadline(c)) =>
                    /\ resolveGuardsErr(sender, c) = "Dispute timeout exceeded"
                    /\ \A u \in UpdateArgsFor(c) :
                            resolveDisputeErr(sender, c, u) = "Dispute timeout exceeded"
            /\ (c \in inDispute /\ now <= Deadline(c)) =>
                    withdrawTimelockErr(sender, c) = "Dispute period not ended"
            /\ c \notin inDispute => withdrawTimelockErr(sender, c) = "No active dispute"
        /\ \A s1 \in Callers, s2 \in Callers :
                ~(resolveGuardsErr(s1, c) = OK /\ withdrawTimelockErr(s2, c) = OK)

C28_Step ==
    /\ last'.op = "withdrawTimelock" /\ last' # last =>
            last'.id \in inDispute /\ now > Deadline(last'.id)
    /\ last'.op = "resolveDispute" /\ last' # last =>
            last'.id \in inDispute /\ now <= Deadline(last'.id)

C28_DeadlineSeparation == []C28_Gate /\ [][C28_Step]_vars

\* a timeout withdrawal in the first block after the deadline
C28_Witness ==
    /\ last.op = "withdrawTimelock"
    /\ now = Deadline(last.id) + 1
    /\ last.id \notin inDispute
    /\ withdrawTimelockErr(Alice, last.id) = "No active dispute"

\* --------------------------------------------------------------------
\* C29  Participant gating.  closeChannel, disputeChannel, resolveDispute and
\* withdrawTimelock called by an address that is neither participant1 nor
\* participant2 of the channel fail with "Not a channel participant", in every
\* state of the channel (active, in dispute before and after the deadline,
\* inactive) and for an id that was never opened, whatever update the call
\* carries; the failed call is a revert and changes nothing.
C29_ParticipantGating ==
    \A c \in KnownIds : \A sender \in Callers \ ParticipantsOf(c) :
        /\ disputeChannelErr(sender, c) = "Not a channel participant"
        /\ withdrawTimelockErr(sender, c) = "Not a channel participant"
        /\ \A u \in UpdateArgsFor(c) \cup {NoUpdate} :
                /\ closeChannelErr(sender, c, u) = "Not a channel participant"
                /\ resolveDisputeErr(sender, c, u) = "Not a channel participant"

\* a channel in dispute after its deadline: the withdrawal that a participant
\* can make is refused to the relayer and to the owner
C29_Witness ==
    \E c \in inDispute :
        /\ now > Deadline(c)
        /\ withdrawTimelockErr(Alice, c) = OK
        /\ withdrawTimelockErr(Relayer, c) = "Not a channel participant"
        /\ withdrawTimelockErr(Owner, c) = "Not a channel participant"
        /\ closeChannelErr(Relayer, c, NoUpdate) = "Not a channel participant"
        /\ closeChannelErr(Relayer, ZeroHash, NoUpdate) = "Not a channel participant"

\* --------------------------------------------------------------------
\* C30  Administrator-only operations.  setRelayerAuthorization, updateFees,
\* setYellowNetworkOracle and withdrawFees called by anyone but the owner
\* fail and change nothing (withdrawFees with "Ownable: caller is not the
\* owner"); and a step that changes a relayer's authorization, a fee
\* parameter or the oracle address is one of the three setters: it is no
\* channel or fund operation, and it changes no channel, no dispute and no
\* funds.
C30_Refused ==
    \A sender \in Callers \ {Owner} :
        /\ \A relayer \in RelayerArgs, authorized \in BOOLEAN :
                ~ENABLED (/\ setRelayerAuthorization(sender, relayer, authorized)
                          /\ UNCHANGED <<callState, unwritten>>
                          /\ vars' # vars)
        /\ \A f \in FeeArgs :
                ~ENABLED (/\ updateFees(sender, f[1], f[2])
                          /\ UNCHANGED <<callState, unwritten>>
                          /\ vars' # vars)
        /\ \A oracle \in OracleArgs :
                ~ENABLED (/\ setYellowNetworkOracle(sender, oracle)
                          /\ UNCHANGED <<callState, seenUpdate, settled, circleState>>
                          /\ vars' # vars)
        /\ withdrawFeesErr(sender) = "Ownable: caller is not the owner"

C30_Step ==
    (\/ authorizedRelayers' # authorizedRelayers
     \/ channelFee' # channelFee
     \/ relayerFee' # relayerFee
     \/ yellowNetworkOracle' # yellowNetworkOracle) =>
        /\ last' = NoCall
        /\ UNCHANGED <<channels, disputeTimeouts, inDispute, balance, now, opens,
                       opened>>

C30_AdminOnly == []C30_Refused /\ [][C30_Step]_vars

\* the owner has authorized the relayer, changed the fees and replaced the
\* oracle; the funds are there and withdrawFees is refused to a participant
C30_Witness ==
    /\ Relayer \in authorizedRelayers
    /\ <<channelFee, relayerFee>> # <<InitChannelFee, InitRelayerFee>>
    /\ yellowNetworkOracle # YellowOracle
    /\ balance > 0
    /\ withdrawFeesErr(Owner) = OK
    /\ withdrawFeesErr(Alice) = "Ownable: caller is not the owner"

\* --------------------------------------------------------------------
\* C31  The oracle address never influences a transition.  Replacing the
\* oracle address changes nothing but that address; in the two states that
\* differ only in it, every call of every function with every argument is
\* accepted or rejected alike, with the same error; and no call other than
\* setYellowNetworkOracle writes the address.
C31_SameOutcome ==
    /\ \A x \in C23_Args : C23_Err(x)' = C23_Err(x)
    /\ \A sender \in Callers :
        /\ withdrawFeesErr(sender)' = withdrawFeesErr(sender)
        /\ \A c \in KnownIds :
            /\ disputeChannelErr(sender, c)' = disputeChannelErr(sender, c)
            /\ withdrawTimelockErr(sender, c)' = withdrawTimelockErr(sender, c)
            /\ emergencyWithdrawErr(sender, c)' = emergencyWithdrawErr(sender, c)
            /\ \A u \in UpdateArgsFor(c) \cup {NoUpdate} :
                /\ closeChannelErr(sender, c, u)' = closeChannelErr(sender, c, u)
                /\ resolveDisputeErr(sender, c, u)' = resolveDisputeErr(sender, c, u)
    /\ \A u \in UpdateArgs :
        /\ updateChannelErr(u)' = updateChannelErr(u)
        /\ \A relayer \in RelayerArgs, signer \in {Relayer, Alice} :
                relayTransactionErr(u, relayer, Sign(signer, RelayHash(u, relayer)))'
                    = relayTransactionErr(u, relayer, Sign(signer, RelayHash(u, relayer)))

C31_Step ==
    /\ yellowNetworkOracle' # yellowNetworkOracle =>
            /\ UNCHANGED <<contractState, now, opens, opened, callState, seenUpdate,
                           settled, circleState>>
            /\ last' = NoCall
            /\ C31_SameOutcome
    /\ last' # NoCall => yellowNetworkOracle' = yellowNetworkOracle

C31_OracleNeverConsulted == [][C31_Step]_vars

\* an update accepted and a channel closed after the oracle address was replaced
C31_Witness ==
    /\ yellowNetworkOracle # YellowOracle
    /\ last.op = "closeChannel"
    /\ last.update.nonce > 0
    /\ balance > 0

\* --------------------------------------------------------------------
\* C32  No double payout.  For every channel, whatever closeChannel,
\* withdrawTimelock and emergencyWithdraw calls are made and in whatever
\* order, the total transferred to its two participants since it was opened
\* never exceeds the amount1 + amount2 deposited by that open.
C32_NoDoublePayout ==
    ~Uncounted =>
        \A c \in DOMAIN settled.paid : settled.paid[c] <= opened[c]

\* --------------------------------------------------------------------
\* C33  Solvency.  In every reachable state the balance of the contract is at
\* least the sum of balance1 + balance2 over the active channels, and the two
\* transfers that settle any one active channel can be paid.
C33_Solvency ==
    /\ balance >= Deposits(channels)
    /\ \A c \in DOMAIN channels :
            channels[c].isActive
                => CanPay(balance, channels[c].balance1, channels[c].balance2)

\* --------------------------------------------------------------------
\* C34  resolveDispute resolves the disputed channel itself.  Whenever
\* resolveDispute(channelId, update) succeeds, update names channelId and
\* channelId then holds update's nonce and balances; no other channel record
\* changes; and a dispute flag is cleared by resolveDispute only with an
\* update applied to that very channel.
C34_Step ==
    last'.op = "resolveDispute" /\ last' # last =>
        /\ last'.update.channelId = last'.id
        /\ channels'[last'.id].nonce = last'.update.nonce
        /\ channels'[last'.id].balance1 = last'.update.balance1
        /\ channels'[last'.id].balance2 = last'.update.balance2
        /\ \A d \in DOMAIN channels : d # last'.id => channels'[d] = channels[d]

C34_ResolvesItself == [][C34_Step]_vars

\* --------------------------------------------------------------------
\* C35  closeChannel touches only the channel being closed.  A successful
\* closeChannel(channelId, finalUpdate) leaves the record of every channel
\* other than channelId as it was, whatever channel finalUpdate names, and it
\* pays participant1 and participant2 of channelId the balance1 and balance2
\* of channelId.
C35_Step ==
    last'.op = "closeChannel" /\ last' # last =>
        /\ \A d \in DOMAIN channels : d # last'.id => channels'[d] = channels[d]
        /\ SentTo(last'.paid, channels[last'.id].participant1)
                = channels'[last'.id].balance1
        /\ SentTo(last'.paid, channels[last'.id].participant2)
                = channels'[last'.id].balance2

C35_ClosesOnlyItself == [][C35_Step]_vars

\* --------------------------------------------------------------------
\* C36  Relayed updates go through the full validation path.
\* relayTransaction accepts an update only if the relayer's signature is the
\* relayer's own over (channelId, nonce, relayer) and the update passes every
\* check of updateChannel in the current state: channel active, not in
\* dispute, nonce strictly greater, sum conserved, both participant
\* signatures valid.  With a relayer signature that fails it reverts with the
\* signature error, with an update that fails it reverts with the error of
\* updateChannel; a revert leaves the channel as it was, and only a successful
\* relayTransaction pays a relayer.
C36_RelaySigArgs(u, relayer) ==
    {Sign(relayer, RelayHash(u, relayer)), Sign(Alice, RelayHash(u, relayer)),
     Sign(relayer, StateUpdateHash(u)), EmptySig}

C36_Gate ==
    \A relayer \in authorizedRelayers : \A u \in UpdateArgs :
        \A sig \in C36_RelaySigArgs(u, relayer) :
            LET err == relayTransactionErr(u, relayer, sig)
                c == u.channelId
            IN  /\ err = OK =>
                    /\ sig = Sign(relayer, RelayHash(u, relayer))
                    /\ updateChannelErr(u) = OK
                    /\ Chan(c).isActive /\ c \notin inDispute
                    /\ u.nonce > Chan(c).nonce
                    /\ u.balance1 + u.balance2 = Total(Chan(c))
                    /\ BothSigned(u)
                /\ sig # Sign(relayer, RelayHash(u, relayer)) =>
                    err \in {"Invalid relayer signature", "ECDSA: invalid signature length"}
                /\ (sig = Sign(relayer, RelayHash(u, relayer)) /\ updateChannelErr(u) # OK)
                    => err = updateChannelErr(u)

C36_Step ==
    /\ last'.op = "relayTransaction" /\ last' # last =>
        /\ channels[last'.id].isActive /\ last'.id \notin inDispute
        /\ last'.update.channelId = last'.id
        /\ last'.update.nonce > channels[last'.id].nonce
        /\ last'.update.balance1 + last'.update.balance2 = Total(channels[last'.id])
    /\ \A relayer \in RelayerArgs :
            SentTo(last'.paid, relayer) > 0 /\ last' # last
                => last'.op = "relayTransaction"

C36_RelayValidated == []C36_Gate /\ [][C36_Step]_vars

\* the relayer has relayed nonce 2: the dual-signed nonce 1 is refused as stale
\* under a valid relayer signature, and the next nonce is not reachable with a
\* relayer signature made over the state hash
C36_Witness ==
    /\ last.op = "relayTransaction"
    /\ last.update.nonce = 2
    /\ Relayer \in authorizedRelayers
    /\ LET lo == Signed(last.id, 1, last.update.balance1, last.update.balance2)
       IN  /\ relayTransactionErr(lo, Relayer, RelaySig(lo)) = "Invalid nonce"
           /\ relayTransactionErr(lo, Relayer, Sign(Relayer, StateUpdateHash(lo)))
                    = "Invalid relayer signature"

\* --------------------------------------------------------------------
\* C37  Dispute implies active.  In every reachable state, every channel id
\* whose dispute flag is set has a record, the record is active and a
\* deadline is recorded for it; an inactive or never-opened id is not in
\* dispute.
C37_DisputeImpliesActive ==
    /\ \A c \in inDispute :
            /\ c \in DOMAIN channels
            /\ channels[c].isActive
            /\ c \in DOMAIN disputeTimeouts
            /\ disputeTimeouts[c] > 0
    /\ \A c \in KnownIds : ~Chan(c).isActive => c \notin inDispute

\* a channel opened twice and put in dispute in a later block
C37_Witness ==
    /\ last.op = "disputeChannel"
    /\ opens = 2
    /\ now > 0
    /\ last.id \in inDispute
    /\ Chan(last.id).isActive
    /\ Deadline(last.id) = now + DISPUTE_TIMEOUT
    /\ ZeroHash \notin inDispute

\* --------------------------------------------------------------------
\* C38  The dispute countdown cannot be extended.  While a channel stays in
\* dispute its recorded deadline does not change, whatever is called; a
\* disputeChannel by either participant during the dispute fails with "Already
\* in dispute"; and a dispute ends only by resolveDispute or withdrawTimelock.
C38_SecondRefused ==
    \A c \in inDispute : \A sender \in ParticipantsOf(c) :
        disputeChannelErr(sender, c) = "Already in dispute"

C38_Step ==
    \A c \in inDispute :
        /\ c \in inDispute' => Deadline(c)' = Deadline(c)
        /\ c \notin inDispute' =>
                last'.op \in {"resolveDispute", "withdrawTimelock"} /\ last'.id = c

C38_FixedDeadline == []C38_SecondRefused /\ [][C38_Step]_vars

\* a block after the dispute was opened: the deadline is still the one set
\* then, and a second dispute is refused to both participants
C38_Witness ==
    \E c \in inDispute :
        /\ now = DISPUTE_TIMEOUT
        /\ Deadline(c) = DISPUTE_TIMEOUT
        /\ disputeChannelErr(Alice, c) = "Already in dispute"
        /\ disputeChannelErr(Bob, c) = "Already in dispute"

\* --------------------------------------------------------------------
\* C39  Frame of an update.  A successful updateChannel writes balance1,
\* balance2 and nonce of the channel named by update.channelId and nothing
\* else: that channel's participants, timeout, isActive and dispute state,
\* every other channel record, the deadlines, the relayer authorizations, the
\* fees, the oracle address and the funds held are unchanged, and nothing is
\* transferred.
C39_Step ==
    last'.op = "updateChannel" /\ last' # last =>
        \A c \in DOMAIN channels :
            c = last'.update.channelId =>
                /\ last'.id = c
                /\ channels' = [channels EXCEPT ![c].balance1 = last'.update.balance1,
                                                ![c].balance2 = last'.update.balance2,
                                                ![c].nonce = last'.update.nonce]
                /\ channels'[c].participant1 = channels[c].participant1
                /\ channels'[c].participant2 = channels[c].participant2
                /\ channels'[c].timeout = channels[c].timeout
                /\ channels'[c].isActive = channels[c].isActive
                /\ last'.paid = <<>>
                /\ UNCHANGED <<disputeTimeouts, inDispute, authorizedRelayers,
                               channelFee, relayerFee, balance, yellowNetworkOracle,
                               now, opens, opened>>

C39_UpdateFrame == [][C39_Step]_vars

\* the first update of a channel has moved its funds to participant2, and the
\* contract still holds the deposit and the fee
C39_Witness ==
    /\ last.op = "updateChannel"
    /\ opens = 1
    /\ Chan(last.id).nonce = 1
    /\ Chan(last.id).balance1 = 0
    /\ Chan(last.id).balance2 = opened[last.id]
    /\ Chan(last.id).isActive
    /\ balance = opened[last.id] + channelFee

\* ---------------------------------------------------------- LendingCircle
\* address(this) of the LendingCircle contract, participant2 of every channel
\* it opens
LendingCircle == "lendingCircle"

Day == 86400        \* 1 days

MaxCircles == 1     \* number of successful createCircle calls in a run

CircleNameArgs == {"", "circle"}
\* contributionAmount and payoutAmount arguments of createCircle
ContributionArgs == {<<0, 0>>, <<1, 1>>, <<1, 2>>, <<2, 1>>}
DurationArgs == {Day - 1, Day, 10 * Day, 30 * Day, 365 * Day, 365 * Day + 1}
MaxMembersArgs == {2, 3, 4, 21}
MinReputationArgs == {0, 50}
Creators == {Owner, Alice}
CircleIdArgs == 0..(MaxCircles + 1)
\* msg.value arguments of joinCircle
JoinValueArgs == {InitChannelFee, 1 + InitChannelFee, 2 + InitChannelFee}

\* SocialVerification.getReputationScore: the scores the verification contract
\* holds, one account below every positive minimum
getReputationScore(user) == IF user = Relayer THEN 0 ELSE 100

nextCircleId == Len(circles) + 1

\* the Member.status read from circleMembers[circleId][member]; an entry never
\* written reads as the first value of the enum
MemberStatusOf(circleId, member) ==
    IF member \in DOMAIN circleMembers[circleId]
    THEN circleMembers[circleId][member] ELSE "Invited"

circleExists(circleId) == circleId > 0 /\ circleId < nextCircleId

\* circles[circleId].creator == msg.sender || hasRole(CIRCLE_ADMIN_ROLE, msg.sender);
\* the constructor grants no account the CIRCLE_ADMIN_ROLE
onlyCircleAdmin(sender, circleId) == circles[circleId].creator = sender

\* _addMember on the circles cs and the members ms
addMember(cs, ms, circleId, member) ==
    [circles |-> [cs EXCEPT ![circleId].currentMembers = @ + 1],
     circleMembers |->
        IF member \in DOMAIN ms[circleId] THEN ms
        ELSE [ms EXCEPT ![circleId] = Put(@, member, "Joined")]]

createCircleErr(name, contributionAmount, payoutAmount, duration, maxMembers) ==
    IF ~(Len(name) > 0) THEN "Name cannot be empty"
    ELSE IF ~(contributionAmount > 0) THEN "Contribution amount must be positive"
    ELSE IF ~(payoutAmount >= contributionAmount) THEN "Payout must be >= contribution"
    ELSE IF ~(maxMembers >= 3 /\ maxMembers <= 20) THEN "Invalid member count"
    ELSE IF ~(duration >= Day /\ duration <= 365 * Day) THEN "Invalid duration"
    ELSE OK

createCircle(sender, name, contributionAmount, payoutAmount, duration, maxMembers, isPrivate, minReputationScore) ==
    LET err == createCircleErr(name, contributionAmount, payoutAmount, duration,
                               maxMembers)
        circleId == nextCircleId
        created == Append(circles,
                     [creator |-> sender, contributionAmount |-> contributionAmount,
                      payoutAmount |-> payoutAmount, duration |-> duration,
                      maxMembers |-> maxMembers, currentMembers |-> 0,
                      status |-> "Created", isPrivate |-> isPrivate,
                      minReputationScore |-> minReputationScore])
        added == addMember(created, Append(circleMembers, <<>>), circleId, sender)
    IN  IF err # OK THEN Revert
        ELSE /\ circles' = added.circles
             /\ circleMembers' = added.circleMembers
             /\ memberStateChannels' = Append(memberStateChannels, <<>>)
             /\ last' = NoCall
             /\ UNCHANGED <<contractState, now, opens, opened>>

inviteMemberErr(sender, circleId, member) ==
    IF ~circleExists(circleId) THEN "Circle does not exist"
    ELSE IF ~onlyCircleAdmin(sender, circleId) THEN "Not authorized"
    ELSE IF circles[circleId].status \notin {"Created", "Recruiting"}
         THEN "Invalid circle status"
    ELSE IF ~(circles[circleId].currentMembers < circles[circleId].maxMembers)
         THEN "Circle is full"
    ELSE IF member \in DOMAIN circleMembers[circleId] THEN "Already invited"
    ELSE IF /\ circles[circleId].minReputationScore > 0
            /\ ~(getReputationScore(member) >= circles[circleId].minReputationScore)
         THEN "Insufficient reputation"
    ELSE OK

inviteMember(sender, circleId, member) ==
    IF inviteMemberErr(sender, circleId, member) # OK THEN Revert
    ELSE /\ circleMembers' = [circleMembers EXCEPT
                                 ![circleId] = Put(@, member, "Invited")]
         /\ last' = NoCall
         /\ UNCHANGED <<contractState, now, opens, opened, circles,
                        memberStateChannels>>

\* the requires of joinCircle itself, before it calls the channel contract
joinCircleErr(sender, circleId) ==
    IF ~circleExists(circleId) THEN "Circle does not exist"
    ELSE IF circles[circleId].status \notin {"Created", "Recruiting"}
         THEN "Invalid circle status"
    ELSE IF ~(circles[circleId].currentMembers < circles[circleId].maxMembers)
         THEN "Circle is full"
    ELSE IF circles[circleId].isPrivate
         THEN (IF MemberStatusOf(circleId, sender) # "Invited" THEN "Not invited"
               ELSE OK)
    ELSE IF sender \in DOMAIN circleMembers[circleId] THEN "Already a member"
    ELSE IF /\ circles[circleId].minReputationScore > 0
            /\ ~(getReputationScore(sender) >= circles[circleId].minReputationScore)
         THEN "Insufficient reputation"
    ELSE OK

\* the timeout joinCircle passes to openChannel
JoinTimeout(circleId) == circles[circleId].duration * circles[circleId].maxMembers

\* the requires of _startCircle
startCircleErr(cs, circleId) ==
    IF ~(cs[circleId].currentMembers >= 3) THEN "Need at least 3 members"
    ELSE IF cs[circleId].status \notin {"Created", "Recruiting"} THEN "Invalid status"
    ELSE OK

\* the members and the count of the circle after joinCircle has recorded sender
Joined(sender, circleId) ==
    IF sender \notin DOMAIN circleMembers[circleId]
    THEN addMember(circles, circleMembers, circleId, sender)
    ELSE [circles |-> circles,
          circleMembers |-> [circleMembers EXCEPT ![circleId][sender] = "Joined"]]

\* the outcome of the whole joinCircle call: its own requires, those of the
\* openChannel it calls, those of _startCircle when the circle has become full
joinCircleOutcome(sender, circleId, value) ==
    IF joinCircleErr(sender, circleId) # OK THEN joinCircleErr(sender, circleId)
    ELSE IF openChannelErr(sender, LendingCircle,
                           circles[circleId].contributionAmount, 0,
                           JoinTimeout(circleId), value) # OK
         THEN openChannelErr(sender, LendingCircle,
                             circles[circleId].contributionAmount, 0,
                             JoinTimeout(circleId), value)
    ELSE IF Joined(sender, circleId).circles[circleId].currentMembers
                = circles[circleId].maxMembers
         THEN startCircleErr(Joined(sender, circleId).circles, circleId)
    ELSE OK

joinCircle(sender, circleId, value) ==
    IF joinCircleOutcome(sender, circleId, value) # OK THEN Revert
    ELSE LET joined == Joined(sender, circleId)
         IN  /\ circleMembers' = joined.circleMembers
             /\ openChannel(LendingCircle, sender, LendingCircle,
                            circles[circleId].contributionAmount, 0,
                            JoinTimeout(circleId), value)
             /\ memberStateChannels' =
                    [memberStateChannels EXCEPT
                        ![circleId] = Put(@, sender, ChannelIdOf(sender, LendingCircle))]
             /\ circles' =
                    IF joined.circles[circleId].currentMembers
                            = circles[circleId].maxMembers
                    THEN [joined.circles EXCEPT ![circleId].status = "Active"]
                    ELSE joined.circles

CreateCircle ==
    /\ UNCHANGED <<callState, yellowNetworkOracle, seenUpdate, settled>>
    /\ Len(circles) < MaxCircles
    /\ \E sender \in Creators, name \in CircleNameArgs, a \in ContributionArgs,
          duration \in DurationArgs, maxMembers \in MaxMembersArgs,
          isPrivate \in BOOLEAN, minReputationScore \in MinReputationArgs :
            createCircle(sender, name, a[1], a[2], duration, maxMembers, isPrivate,
                         minReputationScore)

InviteMember ==
    /\ UNCHANGED <<callState, yellowNetworkOracle, seenUpdate, settled>>
    /\ \E sender \in Callers, circleId \in CircleIdArgs, member \in Callers :
            inviteMember(sender, circleId, member)

JoinCircle ==
    /\ UNCHANGED <<callState, yellowNetworkOracle, seenUpdate, settled>>
    /\ opens < MaxOpens
    /\ now \in OpenTimes
    /\ \E sender \in Callers, circleId \in CircleIdArgs, value \in JoinValueArgs :
            joinCircle(sender, circleId, value)

\* the lending-circle layer on top of the engine: circles are created, and
\* members are invited and join
NextCircle ==
    \/ CreateCircle
    \/ InviteMember
    \/ JoinCircle

SpecCircle == Init /\ [][NextCircle]_vars

\* --------------------------------------------------------------------
\* C40  One channel per joining member.  For every circle that createCircle
\* has accepted (duration between 1 and 365 days, 3 to 20 members) and that is
\* still recruiting, a joinCircle of an account that passes the circle's own
\* membership requires and supplies contributionAmount + channelFee succeeds;
\* and every successful joinCircle opens exactly one channel, active, between
\* the member and the circle contract, with balance1 = contributionAmount and
\* balance2 = 0, whose id it records in memberStateChannels for the member.
C40_JoinSucceeds ==
    \A circleId \in 1..Len(circles) :
        \A member \in Callers :
            joinCircleErr(member, circleId) = OK =>
                joinCircleOutcome(member, circleId,
                    circles[circleId].contributionAmount + channelFee) = OK

C40_Step ==
    \A circleId \in 1..MaxCircles :
        \A member \in Callers :
            /\ circleId \in DOMAIN memberStateChannels
            /\ memberStateChannels' # memberStateChannels
            /\ member \in DOMAIN memberStateChannels'[circleId]
            /\ (member \in DOMAIN memberStateChannels[circleId] =>
                    memberStateChannels'[circleId][member]
                        # memberStateChannels[circleId][member])
            => /\ last'.op = "openChannel"
               /\ memberStateChannels'[circleId][member] = last'.id
               /\ memberStateChannels' =
                    [memberStateChannels EXCEPT
                        ![circleId] = Put(@, member, ChannelIdOf(member, LendingCircle))]
               /\ opens' = opens + 1
               /\ Chan(ChannelIdOf(member, LendingCircle))' =
                    [participant1 |-> member, participant2 |-> LendingCircle,
                     balance1 |-> circles[circleId].contributionAmount,
                     balance2 |-> 0, nonce |-> 0,
                     timeout |-> JoinTimeout(circleId), isActive |-> TRUE]
               /\ \A c \in DOMAIN channels' :
                    c # ChannelIdOf(member, LendingCircle) =>
                        c \in DOMAIN channels /\ channels'[c] = channels[c]
               /\ member \in DOMAIN circleMembers'[circleId]
               /\ circleMembers'[circleId][member] = "Joined"

C40_OneChannelPerJoin == []C40_JoinSucceeds /\ [][C40_Step]_vars

\* every successful joinCircle opens and records the member's channel
C40_JoinEffect == [][C40_Step]_vars

\* the refusal is that of the timeout: a circle whose duration * maxMembers
\* lies within the channel contract's bounds admits every qualifying member
C40_JoinSucceedsWithinTimeout ==
    \A circleId \in 1..Len(circles) :
        \A member \in Callers :
            /\ joinCircleErr(member, circleId) = OK
            /\ JoinTimeout(circleId) <= MAX_TIMEOUT
            => joinCircleOutcome(member, circleId,
                    circles[circleId].contributionAmount + channelFee) = OK

\* a member has joined a circle and holds a channel with the circle contract
C40_Joined ==
    \E circleId \in 1..Len(circles) :
        \E member \in DOMAIN memberStateChannels[circleId] :
            /\ last.op = "openChannel"
            /\ last.id = memberStateChannels[circleId][member]
            /\ Chan(last.id).isActive
            /\ Chan(last.id).participant2 = LendingCircle

\* the circle of the integration test (30 days, 4 members) refuses a
\* qualifying member that supplies contributionAmount + channelFee
C40_TestCircleRefuses ==
    \E circleId \in 1..Len(circles) :
        /\ circles[circleId].duration = 30 * Day
        /\ circles[circleId].maxMembers = 4
        /\ ~circles[circleId].isPrivate
        /\ joinCircleErr(Bob, circleId) = OK
        /\ joinCircleOutcome(Bob, circleId,
                circles[circleId].contributionAmount + channelFee) = "Invalid timeout"
====
